---- MODULE Spec2Model ----
(***************************************************************************)
(* HarmonyLearn-v2 request layer: the express handlers of server/routes.ts *)
(* over the data-access functions of server/storage.ts.  The relational    *)
(* store behind the ORM client is a family of tables of rows; a row and a  *)
(* JSON body are functions from field names to values, a field that is     *)
(* undefined / null being absent from the domain.                          *)
(***************************************************************************)
EXTENDS Integers, Sequences, FiniteSets, TLC

VARIABLES
  db,      \* table name -> set of rows
  nextId,  \* table name -> next autoincrement id
  dbUp,    \* TRUE while the database answers queries
  reg,     \* register requests suspended between the e-mail lookup and the insert
  proc,    \* the server process: its environment, configuration and socket
  resp     \* the request answered by the last step, with its response

vars == <<db, nextId, dbUp, reg, proc, resp>>

-----------------------------------------------------------------------------
(* Bounds of the model *)

\* rows created over a run, all tables together
MaxCreates == 2

-----------------------------------------------------------------------------
(* Values *)

Null == [null |-> TRUE]
NoResp == [route |-> "none", status |-> 0]
Idle == [pc |-> "idle"]
\* the register requests that may be in flight at once
Slots == {"r1", "r2"}

\* parseInt of a non-numeric path segment
NaN == -1

Pick(r, K) == [f \in (DOMAIN r) \cap K |-> r[f]]
Omit(r, K) == [f \in (DOMAIN r) \ K |-> r[f]]
\* object spread {...a, ...b}: b's fields win
Spread(a, b) == [f \in (DOMAIN a) \cup (DOMAIN b) |-> IF f \in DOMAIN b THEN b[f] ELSE a[f]]
\* an optional field of a generated body: S is {} (absent) or {v}
Opt(f, S) == IF S = {} THEN <<>> ELSE f :> (CHOOSE v \in S : TRUE)
Maybe(V) == {{}} \cup {{v} : v \in V}
\* JSON values that are not strings, as a request body carries them where the
\* schema declares a string: null, the number 0, the number 7
JsonNull == "#null"
JsonZero == "#0"
JsonSeven == "#7"
NotStrings == {JsonNull, JsonZero, JsonSeven}
\* typeof v === "string"
IsString(v) == v \notin NotStrings
\* JavaScript truthiness of a string / number field of an object
TruthyStr(r, f) == f \in DOMAIN r /\ r[f] \notin {"", JsonNull, JsonZero}
TruthyNum(r, f) == f \in DOMAIN r /\ r[f] # 0

Tables == {"user", "course", "classroom", "schedule", "liveSession", "mentorProfile",
           "post", "staffRequest", "masterRoleRequest", "mentorshipRequest",
           "resignationRequest", "mentorshipSession"}
\* the tables of the store: the entities and the classroom memberships
StoreTables == Tables \cup {"classroomMembership"}

RECURSIVE SumIds(_, _)
SumIds(n, T) == IF T = {} THEN 0
                ELSE LET t == CHOOSE x \in T : TRUE IN (n[t] - 1) + SumIds(n, T \ {t})
Created == SumIds(nextId, StoreTables)
CanCreate == Created < MaxCreates

-----------------------------------------------------------------------------
(* The ORM client calls storage.ts makes.  Each yields [ok, val, db, nextId]: *)
(* ok = FALSE is a thrown error, which leaves the store as it was.            *)

Thrown == [ok |-> FALSE, val |-> Null, db |-> db, nextId |-> nextId]
Returned(v) == [ok |-> TRUE, val |-> v, db |-> db, nextId |-> nextId]

Matching(t, f, v) == {r \in db[t] : f \in DOMAIN r /\ r[f] = v}
One(S) == IF S = {} THEN Null ELSE CHOOSE r \in S : TRUE

\* columns declared unique: findUnique is called on them
UniqueColumns(t) == IF t = "user" THEN {"username", "email"} ELSE {}

findMany(t) == IF dbUp THEN Returned(db[t]) ELSE Thrown

findUnique(t, f, v) ==
  IF ~dbUp \/ (f = "id" /\ v = NaN) THEN Thrown ELSE Returned(One(Matching(t, f, v)))

\* findFirst: the matching row of lowest id, null when none matches
findFirst(t, f, v) ==
  LET hits == Matching(t, f, v)
  IN IF ~dbUp \/ v = NaN THEN Thrown
     ELSE IF hits = {} THEN Returned(Null)
     ELSE Returned(CHOOSE r \in hits : \A q \in hits : r.id <= q.id)

WorkflowTables == {"staffRequest", "masterRoleRequest", "mentorshipRequest",
                   "resignationRequest"}

\* column defaults the database applies to a create that omits the column: the
\* workflow requests are created pending
ColumnDefaults(t) == IF t \in WorkflowTables THEN [status |-> "pending"] ELSE <<>>

\* a create that stores the row and then reports the unique violation
create_thenThrows(t, data) ==
  LET row == Spread(Spread(ColumnDefaults(t), data), [id |-> nextId[t]])
  IN IF ~dbUp THEN Thrown
     ELSE [ok |-> \A f \in UniqueColumns(t) \cap DOMAIN data : Matching(t, f, data[f]) = {},
           val |-> row,
           db |-> [db EXCEPT ![t] = @ \cup {row}],
           nextId |-> [nextId EXCEPT ![t] = @ + 1]]

create(t, data) ==
  IF ~dbUp \/ (\E f \in UniqueColumns(t) \cap DOMAIN data : Matching(t, f, data[f]) # {})
  THEN Thrown
  ELSE LET row == Spread(Spread(ColumnDefaults(t), data), [id |-> nextId[t]])
       IN [ok |-> TRUE, val |-> row,
           db |-> [db EXCEPT ![t] = @ \cup {row}],
           nextId |-> [nextId EXCEPT ![t] = @ + 1]]

\* an update that inserts the row when none matches
update_upsert(t, id, data) ==
  IF ~dbUp \/ id = NaN THEN Thrown
  ELSE LET old == Matching(t, "id", id)
           row == IF old = {} THEN Spread(data, [id |-> id]) ELSE Spread(One(old), data)
       IN [ok |-> TRUE, val |-> row,
           db |-> [db EXCEPT ![t] = (@ \ old) \cup {row}],
           nextId |-> nextId]

\* an update that stores the data as the whole row
update_replace(t, id, data) ==
  IF ~dbUp \/ id = NaN \/ Matching(t, "id", id) = {} THEN Thrown
  ELSE LET old == One(Matching(t, "id", id))
           row == Spread([id |-> old.id], data)
       IN [ok |-> TRUE, val |-> row,
           db |-> [db EXCEPT ![t] = (@ \ {old}) \cup {row}],
           nextId |-> nextId]

\* data sets the fields it carries; a field it does not carry keeps its value
update(t, id, data) ==
  IF ~dbUp \/ id = NaN \/ Matching(t, "id", id) = {} THEN Thrown
  ELSE LET old == One(Matching(t, "id", id))
           row == Spread(old, data)
       IN [ok |-> TRUE, val |-> row,
           db |-> [db EXCEPT ![t] = (@ \ {old}) \cup {row}],
           nextId |-> nextId]

\* a delete that reports success whether or not a row matched
delete_silent(t, id) ==
  IF ~dbUp THEN Thrown
  ELSE [ok |-> TRUE, val |-> Null,
        db |-> [db EXCEPT ![t] = {r \in @ : r.id # id}], nextId |-> nextId]

\* a delete that reports success and leaves the row in place
delete_keeps(t, id) ==
  IF ~dbUp \/ id = NaN \/ Matching(t, "id", id) = {} THEN Thrown
  ELSE [ok |-> TRUE, val |-> One(Matching(t, "id", id)), db |-> db, nextId |-> nextId]

delete(t, id) ==
  IF ~dbUp \/ id = NaN \/ Matching(t, "id", id) = {} THEN Thrown
  ELSE LET old == One(Matching(t, "id", id))
       IN [ok |-> TRUE, val |-> old,
           db |-> [db EXCEPT ![t] = @ \ {old}],
           nextId |-> nextId]

-----------------------------------------------------------------------------
(* shared/types: the zod schemas *)

ValidEmails == {"a@h.io", "b@h.io"}
IsEmail(s) == s \in ValidEmails

UserKeys == {"username", "password", "email", "role", "isMaster", "firstName",
             "lastName", "avatar", "bio", "xp", "level"}
UserRequired == {"username", "password", "email"}
UserDefaults == [role |-> "student", isMaster |-> FALSE, xp |-> 0, level |-> 1]

UserStrings == {"username", "password", "email", "role", "firstName", "lastName",
                "avatar", "bio"}
\* the paths of the ZodError: required and missing, present and not a string,
\* a string and not an e-mail
UserIssues(o) ==
  {f \in UserRequired : f \notin DOMAIN o}
    \cup {f \in UserStrings \cap DOMAIN o : ~IsString(o[f])}
    \cup (IF "email" \in DOMAIN o /\ ~IsEmail(o.email) THEN {"email"} ELSE {})

\* a parse that validates and leaves omitted fields unset
insertUserSchema_noDefaults(o) ==
  IF UserIssues(o) # {} THEN [ok |-> FALSE, issues |-> UserIssues(o)]
  ELSE [ok |-> TRUE, data |-> Pick(o, UserKeys)]

\* insertUserSchema.parse: unknown keys are stripped, defaults fill omitted fields
insertUserSchema(o) ==
  IF UserIssues(o) # {} THEN [ok |-> FALSE, issues |-> UserIssues(o)]
  ELSE [ok |-> TRUE, data |-> Spread(UserDefaults, Pick(o, UserKeys))]

CourseKeys == {"title", "description", "category", "level", "price", "duration",
               "mentorId", "imageUrl", "isActive", "status", "approvedBy", "adminNotes",
               "syllabus", "prerequisites", "learningObjectives", "targetAudience",
               "difficulty", "estimatedWeeks", "maxStudents", "currentEnrollments", "tags"}
CourseRequired == {"title", "category", "level"}
CourseDefaults == [isActive |-> TRUE, status |-> "draft", prerequisites |-> <<>>,
                   learningObjectives |-> <<>>, difficulty |-> 1, maxStudents |-> 100,
                   currentEnrollments |-> 0, tags |-> <<>>]

CourseStrings == {"title", "description", "category", "level", "imageUrl", "status",
                  "adminNotes", "syllabus", "targetAudience"}
CourseIssues(o) ==
  {f \in CourseRequired : f \notin DOMAIN o}
    \cup {f \in CourseStrings \cap DOMAIN o : ~IsString(o[f])}

insertCourseSchema(o) ==
  LET issues == CourseIssues(o)
  IN IF issues # {} THEN [ok |-> FALSE, issues |-> issues]
     ELSE [ok |-> TRUE, data |-> Spread(CourseDefaults, Pick(o, CourseKeys))]

ClassroomKeys == {"title", "subject", "level", "description", "masterId", "maxStudents",
                  "isActive", "academyName", "about", "instruments", "curriculum",
                  "heroImage", "logoImage", "aboutImage", "primaryColor", "secondaryColor",
                  "contactEmail", "contactPhone", "website", "socialLinks", "features",
                  "testimonials", "pricing", "schedule", "address", "isPublic", "customSlug"}
ClassroomRequired == {"title", "subject", "level"}
ClassroomDefaults == [maxStudents |-> 50, isActive |-> TRUE, instruments |-> <<>>,
                      primaryColor |-> "#3B82F6", secondaryColor |-> "#10B981",
                      features |-> <<>>, isPublic |-> TRUE]

ClassroomStrings == {"title", "subject", "level", "description", "academyName", "about",
                     "curriculum", "heroImage", "logoImage", "aboutImage", "primaryColor",
                     "secondaryColor", "contactEmail", "contactPhone", "website",
                     "socialLinks", "testimonials", "pricing", "schedule", "address",
                     "customSlug"}
ClassroomIssues(o) ==
  {f \in ClassroomRequired : f \notin DOMAIN o}
    \cup {f \in ClassroomStrings \cap DOMAIN o : ~IsString(o[f])}

insertClassroomSchema(o) ==
  LET issues == ClassroomIssues(o)
  IN IF issues # {} THEN [ok |-> FALSE, issues |-> issues]
     ELSE [ok |-> TRUE, data |-> Spread(ClassroomDefaults, Pick(o, ClassroomKeys))]

\* the defaults each validated create applies to omitted fields
SchemaDefaults(t) ==
  CASE t = "user" -> UserDefaults
    [] t = "course" -> CourseDefaults
    [] t = "classroom" -> ClassroomDefaults
    [] OTHER -> <<>>

-----------------------------------------------------------------------------
(* bcrypt: a hash carries its salt; compare re-hashes under that salt *)

Salts == {"s1", "s2"}
bcryptHash(password, salt) == "$2b$10$" \o salt \o "$" \o password
bcryptCompare(password, hash) == \E s \in Salts : bcryptHash(password, s) = hash

\* bcrypt.compare rejects data that is not a string
bcryptRejects(data) == ~IsString(data)

hashPassword(password, salt) == bcryptHash(password, salt)
verifyPassword(password, hash) == bcryptCompare(password, hash)

-----------------------------------------------------------------------------
(* Dates: new Date(s) of an ISO string, Invalid Date of anything else *)

IsoOf == [x \in {"2025-03-01"} |-> "2025-03-01T00:00:00.000Z"]
InvalidDate == [time |-> "Invalid Date"]
NewDate(o, f) == IF f \in DOMAIN o /\ o[f] \in DOMAIN IsoOf
                 THEN [time |-> IsoOf[o[f]]] ELSE InvalidDate
\* new Date()
Now == [time |-> "now"]

-----------------------------------------------------------------------------
(* storage.ts *)

\* the functions storage.ts exports to the routes
StorageExports ==
  {"getUsers", "getUserById", "getUserByUsername", "getUserByEmail", "createUser",
   "updateUser", "deleteUser", "getCourses", "getCourseById", "createCourse",
   "updateCourse", "deleteCourse", "getClassrooms", "getClassroomById",
   "createClassroom", "updateClassroom", "deleteClassroom", "getEnrollments",
   "getEnrollmentsByUserId", "getEnrollmentsByCourseId", "createEnrollment",
   "updateEnrollment", "deleteEnrollment", "getClassroomMemberships",
   "createClassroomMembership", "updateClassroomMembership",
   "deleteClassroomMembership", "getLiveSessions", "getLiveSessionById",
   "createLiveSession", "updateLiveSession", "deleteLiveSession", "getMentorProfiles",
   "getMentorProfileById", "getMentorProfileByUserId", "createMentorProfile",
   "updateMentorProfile", "deleteMentorProfile", "getPosts", "getPostById",
   "createPost", "updatePost", "deletePost", "getStaffRequests", "getStaffRequestById",
   "createStaffRequest", "updateStaffRequest", "deleteStaffRequest",
   "getMasterRoleRequests", "getMasterRoleRequestById", "createMasterRoleRequest",
   "updateMasterRoleRequest", "deleteMasterRoleRequest", "getMentorshipRequests",
   "getMentorshipRequestById", "createMentorshipRequest", "updateMentorshipRequest",
   "deleteMentorshipRequest", "getMentorConversations", "createMentorConversation",
   "updateMentorConversation", "getSchedules", "getScheduleById", "createSchedule",
   "updateSchedule", "deleteSchedule", "getResignationRequests",
   "getResignationRequestById", "createResignationRequest",
   "updateResignationRequest", "getMentorshipSessions", "getMentorshipSessionById",
   "createMentorshipSession", "getStaffClassroomInfo"}

\* a list read that never reaches the database
getUsers_cached == Returned(db["user"])
getUsers == findMany("user")
getUserById(id) == findUnique("user", "id", id)
getUserByEmail_byUsername(email) == findUnique("user", "username", email)
getUserByEmail(email) == findUnique("user", "email", email)
createUser(userData) ==
  LET p == insertUserSchema(userData)
  IN IF p.ok THEN create("user", p.data) ELSE Thrown

getCourses == findMany("course")
getCourseById(id) == findUnique("course", "id", id)
createCourse(courseData) ==
  LET p == insertCourseSchema(courseData)
  IN IF p.ok THEN create("course", p.data) ELSE Thrown
updateCourse(id, courseData) == update("course", id, courseData)
deleteCourse(id) == delete("course", id)

getClassrooms == findMany("classroom")
getClassroomById(id) == findUnique("classroom", "id", id)
createClassroom(classroomData) ==
  LET p == insertClassroomSchema(classroomData)
  IN IF p.ok THEN create("classroom", p.data) ELSE Thrown
updateClassroom(id, classroomData) == update("classroom", id, classroomData)
deleteClassroom(id) == delete("classroom", id)

getLiveSessionById(id) == findUnique("liveSession", "id", id)
createLiveSession(sessionData) ==
  IF sessionData.scheduledAt = InvalidDate THEN Thrown ELSE create("liveSession", sessionData)

getMentorProfileById(id) == findUnique("mentorProfile", "id", id)
getMentorProfileByUserId(userId) == findFirst("mentorProfile", "userId", userId)
createMentorProfile(profileData) == create("mentorProfile", profileData)

getPostById(id) == findUnique("post", "id", id)
createPost(postData) == create("post", postData)

\* role defaults to "student"; columnDefault is what the database gives the columns the
\* create leaves out
createClassroomMembership(userId, classroomId, role, columnDefault) ==
  create("classroomMembership",
         Spread(columnDefault, [userId |-> userId, classroomId |-> classroomId,
                                role |-> IF role = {} THEN "student"
                                         ELSE CHOOSE v \in role : TRUE]))

\* the first active staff membership of the mentor, reduced to the fields answered
getStaffClassroomInfo(mentorId) ==
  LET hits == {m \in db["classroomMembership"] :
                 m.userId = mentorId /\ m.role = "staff" /\ m.status = "active"}
      membership == CHOOSE m \in hits : \A q \in hits : m.id <= q.id
  IN IF ~dbUp \/ mentorId = NaN THEN Thrown
     ELSE IF hits = {} THEN Returned(Null)
     ELSE Returned([classroomId |-> membership.classroomId, role |-> membership.role])

getStaffRequestById(id) == findUnique("staffRequest", "id", id)
createStaffRequest(requestData) == create("staffRequest", requestData)
updateStaffRequest(id, requestData) ==
  LET updateData == IF TruthyStr(requestData, "status") /\ TruthyNum(requestData, "reviewedBy")
                    THEN Spread(requestData, [reviewedAt |-> Now]) ELSE requestData
  IN update("staffRequest", id, updateData)

getMasterRoleRequestById(id) == findUnique("masterRoleRequest", "id", id)
createMasterRoleRequest(requestData) == create("masterRoleRequest", requestData)
updateMasterRoleRequest(id, requestData) ==
  LET status == IF "status" \in DOMAIN requestData THEN requestData.status ELSE ""
      stamped == IF status = "approved" THEN Spread(requestData, [approvedAt |-> Now])
                 ELSE IF status = "rejected" THEN Spread(requestData, [rejectedAt |-> Now])
                 ELSE requestData
      updateData == IF TruthyNum(requestData, "reviewedBy")
                    THEN Spread(stamped, [reviewedAt |-> Now]) ELSE stamped
  IN update("masterRoleRequest", id, updateData)

getMentorshipRequestById(id) == findUnique("mentorshipRequest", "id", id)
createMentorshipRequest(requestData) == create("mentorshipRequest", requestData)
updateMentorshipRequest(id, requestData) == update("mentorshipRequest", id, requestData)

\* a filter argument is {} (undefined) or {v}; a falsy v adds no condition
Where(S, f, arg) ==
  IF arg = {} \/ arg = {0} \/ arg = {NaN} THEN S
  ELSE {r \in S : f \in DOMAIN r /\ r[f] \in arg}

\* the same for a string filter: the empty string is falsy
WhereStr(S, f, arg) ==
  IF arg = {} \/ arg = {""} THEN S
  ELSE {r \in S : f \in DOMAIN r /\ r[f] \in arg}

getStaffRequests(classroomId, status) ==
  IF ~dbUp THEN Thrown
  ELSE Returned(WhereStr(Where(db["staffRequest"], "classroomId", classroomId),
                         "status", status))

getSchedules(classroomId, instructorId) ==
  IF ~dbUp THEN Thrown
  ELSE Returned(Where(Where(db["schedule"], "classroomId", classroomId),
                      "instructorId", instructorId))
getScheduleById(id) == findUnique("schedule", "id", id)
createSchedule(scheduleData) == create("schedule", scheduleData)
updateSchedule(id, scheduleData) ==
  update("schedule", id, Spread(scheduleData, [updatedAt |-> Now]))
deleteSchedule(id) == delete("schedule", id)

getResignationRequestById(id) == findUnique("resignationRequest", "id", id)
createResignationRequest(requestData) ==
  IF requestData.lastWorkDate = InvalidDate THEN Thrown
  ELSE create("resignationRequest", requestData)
updateResignationRequest(id, requestData) ==
  LET updateData == IF TruthyNum(requestData, "reviewedBy")
                    THEN Spread(requestData, [reviewedAt |-> Now]) ELSE requestData
  IN update("resignationRequest", id, updateData)

getMentorshipSessionById(id) == findUnique("mentorshipSession", "id", id)
createMentorshipSession(sessionData) ==
  IF sessionData.scheduledAt = InvalidDate THEN Thrown
  ELSE create("mentorshipSession", sessionData)

\* routes.ts calls storage.getClassroomBySlug, which storage.ts does not export:
\* the call of an undefined member throws
getClassroomBySlug(slug) ==
  IF "getClassroomBySlug" \in StorageExports
  THEN findUnique("classroom", "customSlug", slug)
  ELSE Thrown

-----------------------------------------------------------------------------
(* Requests and responses *)

store == <<db, nextId, dbUp, reg, proc>>

Digits == <<"0", "1", "2", "3", "4", "5", "6", "7", "8", "9">>
\* longer numerals; parseInt reads the leading digits and ignores what follows
Numerals == ("10" :> 10) @@ ("20" :> 20) @@ ("3000" :> 3000) @@ ("5000" :> 5000)
              @@ ("30000" :> 30000) @@ ("3000x" :> 3000)
parseInt(s) == IF \E i \in 1 .. 10 : Digits[i] = s
               THEN (CHOOSE i \in 1 .. 10 : Digits[i] = s) - 1
               ELSE IF s \in DOMAIN Numerals THEN Numerals[s]
               ELSE NaN

Ids == 1 .. MaxCreates
IdParams == {Digits[i + 1] : i \in Ids} \cup {"abc"}

\* route: the handler; req: path parameters and body; arg: the record handed to
\* the data-access function; calls: the data-access functions invoked; by: where
\* the response was written
Reply(route, req, arg, status, body, calls) ==
  [route |-> route, req |-> req, arg |-> arg, status |-> status, body |-> body,
   calls |-> calls, by |-> "handler"]

InternalError == [error |-> "Internal server error"]

\* a list handler without a catch: the rejection is left to the error middleware
ListReply_uncaught(route, fn, r) ==
  IF r.ok THEN Reply(route, <<>>, <<>>, 200, r.val, <<fn>>)
  ELSE [Reply(route, <<>>, <<>>, 500, [message |-> "Internal Server Error"], <<fn>>)
          EXCEPT !.by = "errorMiddleware"]

ListReply(route, fn, r) ==
  IF r.ok THEN Reply(route, <<>>, <<>>, 200, r.val, <<fn>>)
  ELSE Reply(route, <<>>, <<>>, 500, InternalError, <<fn>>)

ByKeyReply(route, fn, key, r, notFound) ==
  IF ~r.ok THEN Reply(route, [key |-> key], <<>>, 500, InternalError, <<fn>>)
  ELSE IF r.val = Null THEN Reply(route, [key |-> key], <<>>, 404, [error |-> notFound], <<fn>>)
  ELSE Reply(route, [key |-> key], <<>>, 200, r.val, <<fn>>)

CreateReply(route, fn, body, arg, c) ==
  IF c.ok THEN Reply(route, [body |-> body], arg, 201, c.val, <<fn>>)
  ELSE Reply(route, [body |-> body], arg, 500, InternalError, <<fn>>)

InvalidReply(route, body, error, issues) ==
  Reply(route, [body |-> body], <<>>, 400, [error |-> error, details |-> issues], <<>>)

PatchReply(route, fn, key, body, arg, u) ==
  IF u.ok THEN Reply(route, [key |-> key, body |-> body], arg, 200, u.val, <<fn>>)
  ELSE Reply(route, [key |-> key, body |-> body], arg, 500, InternalError, <<fn>>)

DeleteReply(route, fn, key, d, message) ==
  IF d.ok THEN Reply(route, [key |-> key], <<>>, 200, [message |-> message], <<fn>>)
  ELSE Reply(route, [key |-> key], <<>>, 500, InternalError, <<fn>>)

-----------------------------------------------------------------------------
(* routes.ts: probes *)

\* a health check that probes the database
HealthResponse_probing ==
  IF dbUp THEN Reply("GET /health", <<>>, <<>>, 200, [status |-> "healthy"], <<"getUsers">>)
  ELSE Reply("GET /health", <<>>, <<>>, 503, [status |-> "unhealthy"], <<"getUsers">>)

HealthResponse ==
  Reply("GET /health", <<>>, <<>>, 200, [status |-> "healthy"], <<>>)

GetHealth == /\ resp' = HealthResponse
             /\ UNCHANGED store

ReadyResponse ==
  IF getUsers.ok
  THEN Reply("GET /ready", <<>>, <<>>, 200, [status |-> "ready"], <<"getUsers">>)
  ELSE Reply("GET /ready", <<>>, <<>>, 503, [status |-> "not ready"], <<"getUsers">>)

GetReady == /\ resp' = ReadyResponse
            /\ UNCHANGED store

\* the database becomes unreachable / reachable again
DbDown == /\ dbUp
          /\ dbUp' = FALSE
          /\ resp' = NoResp
          /\ UNCHANGED <<db, nextId, reg, proc>>

DbBack == /\ ~dbUp
          /\ dbUp' = TRUE
          /\ resp' = NoResp
          /\ UNCHANGED <<db, nextId, reg, proc>>

-----------------------------------------------------------------------------
(* index.ts: body parsing and the error middleware *)

\* the errors express.json / express.urlencoded pass to next(): a body that is not
\* JSON, a body over the size limit
BodyParserErrors ==
  {[status |-> 400, message |-> "Unexpected token } in JSON"],
   [status |-> 413, message |-> "request entity too large"]}

\* routes that are sent a body
BodyRoutes == {"POST /api/users", "POST /api/auth/login", "PATCH /api/courses/:id"}

\* app.use((err, req, res, next) => ...): err.status || err.statusCode || 500,
\* err.message || "Internal Server Error"
ErrorMiddleware(route, err) ==
  LET status == IF "status" \in DOMAIN err /\ err.status # 0 THEN err.status
                ELSE IF "statusCode" \in DOMAIN err /\ err.statusCode # 0 THEN err.statusCode
                ELSE 500
      message == IF "message" \in DOMAIN err /\ err.message # "" THEN err.message
                 ELSE "Internal Server Error"
  IN [route |-> route, req |-> [err |-> err], arg |-> <<>>, status |-> status,
      body |-> [message |-> message], calls |-> <<>>, by |-> "errorMiddleware"]

\* a request whose body the parser rejects: no route handler runs
BodyRejected ==
  \E route \in BodyRoutes : \E err \in BodyParserErrors :
    /\ resp' = ErrorMiddleware(route, err)
    /\ UNCHANGED store

-----------------------------------------------------------------------------
(* routes.ts: users and authentication *)

Ann == [username |-> "ann", email |-> "a@h.io", password |-> "pw1"]

Bob == [username |-> "bob", email |-> "b@h.io", password |-> "pw1"]

UserBodies ==
  {Ann, Bob, Spread(Ann, [password |-> ""]), Spread(Bob, [email |-> "a@h.io"]),
   Spread(Bob, [username |-> "ann"]), Spread(Ann, [role |-> "mentor"]),
   Spread(Ann, [role |-> ""]), Omit(Ann, {"username"}), Spread(Ann, [email |-> "nope"]),
   Spread(Ann, [username |-> JsonSeven]), Spread(Ann, [role |-> JsonZero]),
   Spread(Ann, [role |-> JsonSeven])}

LoginBodies ==
  {Opt("email", e) @@ Opt("password", p) :
     e \in Maybe({"a@h.io", "b@h.io"}), p \in Maybe({"", "pw1", "pw2", JsonSeven})}

GetUserById ==
  \E key \in IdParams :
    /\ resp' = ByKeyReply("GET /api/users/:id", "getUserById", key,
                          getUserById(parseInt(key)), "User not found")
    /\ UNCHANGED store

GetUsers == /\ resp' = ListReply("GET /api/users", "getUsers", getUsers)
            /\ UNCHANGED store

PostUsers ==
  \E body \in UserBodies :
    LET route == "POST /api/users"
        p == insertUserSchema(body)
        c == createUser(p.data)
    IN IF ~p.ok
       THEN /\ resp' = InvalidReply(route, body, "Invalid user data", p.issues)
            /\ UNCHANGED store
       ELSE /\ c.ok => CanCreate
            /\ resp' = CreateReply(route, "createUser", body, p.data, c)
            /\ db' = c.db
            /\ nextId' = c.nextId
            /\ UNCHANGED <<dbUp, reg, proc>>

\* {...userData, role: role || "student"}
RegisterInput(body) ==
  Spread(Omit(body, {"role"}),
         [role |-> IF TruthyStr(body, "role") THEN body.role ELSE "student"])

\* POST /api/auth/register up to the await of getUserByEmail
RegisterLookup(s) ==
  /\ reg[s] = Idle
  /\ \E body \in UserBodies :
       LET route == "POST /api/auth/register"
           p == insertUserSchema(RegisterInput(body))
           existingUser == getUserByEmail(p.data.email)
       IN IF ~p.ok
          THEN /\ resp' = InvalidReply(route, body, "Invalid registration data", p.issues)
               /\ UNCHANGED store
          ELSE IF ~existingUser.ok
          THEN /\ resp' = Reply(route, [body |-> body], <<>>, 500, InternalError,
                                <<"getUserByEmail">>)
               /\ UNCHANGED store
          ELSE IF existingUser.val # Null
          THEN /\ resp' = Reply(route, [body |-> body], <<>>, 409,
                                [error |-> "User already exists with this email"],
                                <<"getUserByEmail">>)
               /\ UNCHANGED store
          ELSE /\ reg' = [reg EXCEPT ![s] = [pc |-> "create", body |-> body,
                                             validatedData |-> p.data]]
               /\ resp' = NoResp
               /\ UNCHANGED <<db, nextId, dbUp, proc>>

\* a register that answers with the created row as stored
RegisterCreate_wholeRow(s) ==
  /\ reg[s] # Idle
  /\ \E salt \in Salts :
       LET route == "POST /api/auth/register"
           calls == <<"getUserByEmail", "createUser">>
           validatedData == reg[s].validatedData
           arg == Spread(validatedData,
                         [password |-> hashPassword(validatedData.password, salt)])
           c == createUser(arg)
       IN /\ c.ok => CanCreate
          /\ reg' = [reg EXCEPT ![s] = Idle]
          /\ resp' = IF c.ok
                     THEN Reply(route, [body |-> reg[s].body], arg, 201,
                                [message |-> "User registered successfully",
                                 user |-> c.val], calls)
                     ELSE Reply(route, [body |-> reg[s].body], arg, 500, InternalError, calls)
          /\ db' = c.db
          /\ nextId' = c.nextId
          /\ UNCHANGED <<dbUp, proc>>

\* the rest of POST /api/auth/register: hash, insert, answer
RegisterCreate(s) ==
  /\ reg[s] # Idle
  /\ \E salt \in Salts :
       LET route == "POST /api/auth/register"
           calls == <<"getUserByEmail", "createUser">>
           validatedData == reg[s].validatedData
           hashedPassword == hashPassword(validatedData.password, salt)
           arg == Spread(validatedData, [password |-> hashedPassword])
           c == createUser(arg)
       IN /\ c.ok => CanCreate
          /\ reg' = [reg EXCEPT ![s] = Idle]
          /\ resp' = IF c.ok
                     THEN Reply(route, [body |-> reg[s].body], arg, 201,
                                [message |-> "User registered successfully",
                                 user |-> Omit(c.val, {"password"})], calls)
                     ELSE Reply(route, [body |-> reg[s].body], arg, 500, InternalError, calls)
          /\ db' = c.db
          /\ nextId' = c.nextId
          /\ UNCHANGED <<dbUp, proc>>

\* a login that reads the user a second time, by id, before it answers
LoginResponse_twoReads(body) ==
  LET route == "POST /api/auth/login"
      user == getUserByEmail(body.email)
  IN IF ~TruthyStr(body, "email") \/ ~TruthyStr(body, "password")
     THEN Reply(route, [body |-> body], <<>>, 400,
                [error |-> "Email and password are required"], <<>>)
     ELSE IF ~user.ok
     THEN Reply(route, [body |-> body], <<>>, 500, InternalError, <<"getUserByEmail">>)
     ELSE IF user.val # Null /\ bcryptRejects(body.password)
     THEN Reply(route, [body |-> body], <<>>, 500, InternalError, <<"getUserByEmail">>)
     ELSE IF user.val = Null \/ ~verifyPassword(body.password, user.val.password)
     THEN Reply(route, [body |-> body], <<>>, 401, [error |-> "Invalid credentials"],
                <<"getUserByEmail">>)
     ELSE Reply(route, [body |-> body], <<>>, 200,
                [message |-> "Login successful",
                 user |-> Omit(getUserById(user.val.id).val, {"password"})],
                <<"getUserByEmail", "getUserById">>)

\* a login that issues a token with the user
LoginResponse_withToken(body) ==
  LET r == LoginResponse_twoReads(body)
  IN IF r.status = 200
     THEN [r EXCEPT !.body = [message |-> r.body.message, user |-> r.body.user,
                              token |-> "t1"],
                    !.calls = <<"getUserByEmail">>]
     ELSE r

LoginResponse(body) ==
  LET route == "POST /api/auth/login"
      user == getUserByEmail(body.email)
      calls == <<"getUserByEmail">>
  IN IF ~TruthyStr(body, "email") \/ ~TruthyStr(body, "password")
     THEN Reply(route, [body |-> body], <<>>, 400,
                [error |-> "Email and password are required"], <<>>)
     ELSE IF ~user.ok
     THEN Reply(route, [body |-> body], <<>>, 500, InternalError, calls)
     ELSE IF user.val = Null
     THEN Reply(route, [body |-> body], <<>>, 401, [error |-> "Invalid credentials"], calls)
     ELSE IF bcryptRejects(body.password)
     THEN Reply(route, [body |-> body], <<>>, 500, InternalError, calls)
     ELSE IF ~verifyPassword(body.password, user.val.password)
     THEN Reply(route, [body |-> body], <<>>, 401, [error |-> "Invalid credentials"], calls)
     ELSE Reply(route, [body |-> body], <<>>, 200,
                [message |-> "Login successful", user |-> Omit(user.val, {"password"})],
                calls)

PostAuthLogin == \E body \in LoginBodies : /\ resp' = LoginResponse(body)
                                           /\ UNCHANGED store

-----------------------------------------------------------------------------
(* routes.ts: courses *)

Piano == [title |-> "Piano 101", category |-> "music", level |-> "beginner"]
CourseBodies == {Piano, Spread(Piano, [status |-> "active"]), Omit(Piano, {"title"}),
                 Spread(Piano, [category |-> JsonNull])}
CoursePatches == {[status |-> "archived"]}

GetCourses == /\ resp' = ListReply("GET /api/courses", "getCourses", getCourses)
              /\ UNCHANGED store

GetCourseByIdResponse(key) ==
  ByKeyReply("GET /api/courses/:id", "getCourseById", key,
             getCourseById(parseInt(key)), "Course not found")

GetCourseById == \E key \in IdParams : /\ resp' = GetCourseByIdResponse(key)
                                       /\ UNCHANGED store

PostCourses ==
  \E body \in CourseBodies :
    LET route == "POST /api/courses"
        p == insertCourseSchema(body)
        c == createCourse(p.data)
    IN IF ~p.ok
       THEN /\ resp' = InvalidReply(route, body, "Invalid course data", p.issues)
            /\ UNCHANGED store
       ELSE /\ c.ok => CanCreate
            /\ resp' = CreateReply(route, "createCourse", body, p.data, c)
            /\ db' = c.db
            /\ nextId' = c.nextId
            /\ UNCHANGED <<dbUp, reg, proc>>

PatchCourse ==
  \E key \in IdParams, body \in CoursePatches :
    LET u == updateCourse(parseInt(key), body)
    IN /\ resp' = PatchReply("PATCH /api/courses/:id", "updateCourse", key, body, body, u)
       /\ db' = u.db
       /\ UNCHANGED <<nextId, dbUp, reg, proc>>

DeleteCourse ==
  \E key \in IdParams :
    LET d == deleteCourse(parseInt(key))
    IN /\ resp' = DeleteReply("DELETE /api/courses/:id", "deleteCourse", key, d,
                              "Course deleted successfully")
       /\ db' = d.db
       /\ UNCHANGED <<nextId, dbUp, reg, proc>>

-----------------------------------------------------------------------------
(* routes.ts: classrooms *)

Studio == [title |-> "Studio", subject |-> "music", level |-> "beginner"]
Slugs == {"jazz", "rock"}
ClassroomBodies ==
  {Studio @@ Opt("customSlug", s) : s \in Maybe(Slugs)}
    \cup {Omit(Studio, {"subject"}), Spread(Studio, [level |-> JsonSeven])}
ClassroomPatches == {[maxStudents |-> 10]}

GetClassrooms == /\ resp' = ListReply("GET /api/classrooms", "getClassrooms", getClassrooms)
                 /\ UNCHANGED store

GetClassroomBySlug ==
  \E slug \in Slugs \cup {"folk"} :
    /\ resp' = ByKeyReply("GET /api/classrooms/slug/:slug", "getClassroomBySlug", slug,
                          getClassroomBySlug(slug), "Academy not found")
    /\ UNCHANGED store

GetClassroomByIdResponse(key) ==
  ByKeyReply("GET /api/classrooms/:id", "getClassroomById", key,
             getClassroomById(parseInt(key)), "Classroom not found")

GetClassroomById == \E key \in IdParams : /\ resp' = GetClassroomByIdResponse(key)
                                          /\ UNCHANGED store

PostClassrooms ==
  \E body \in ClassroomBodies :
    LET route == "POST /api/classrooms"
        p == insertClassroomSchema(body)
        c == createClassroom(p.data)
    IN IF ~p.ok
       THEN /\ resp' = InvalidReply(route, body, "Invalid classroom data", p.issues)
            /\ UNCHANGED store
       ELSE /\ c.ok => CanCreate
            /\ resp' = CreateReply(route, "createClassroom", body, p.data, c)
            /\ db' = c.db
            /\ nextId' = c.nextId
            /\ UNCHANGED <<dbUp, reg, proc>>

PatchClassroom ==
  \E key \in IdParams, body \in ClassroomPatches :
    LET u == updateClassroom(parseInt(key), body)
    IN /\ resp' = PatchReply("PATCH /api/classrooms/:id", "updateClassroom", key, body,
                             body, u)
       /\ db' = u.db
       /\ UNCHANGED <<nextId, dbUp, reg, proc>>

DeleteClassroom ==
  \E key \in IdParams :
    LET d == deleteClassroom(parseInt(key))
    IN /\ resp' = DeleteReply("DELETE /api/classrooms/:id", "deleteClassroom", key, d,
                              "Classroom deleted successfully")
       /\ db' = d.db
       /\ UNCHANGED <<nextId, dbUp, reg, proc>>

-----------------------------------------------------------------------------
(* routes.ts: schedules *)

Scales == [classroomId |-> 1, title |-> "Scales", dayOfWeek |-> 1, startTime |-> "09:00",
           endTime |-> "10:00", instructorId |-> 1]
ScheduleBodies == {Scales}
SchedulePatches == {[title |-> "Chords"]}
\* a query-string filter: absent, or a string handed to parseInt when truthy
QueryNums == Maybe({"1"})
QueryArg(q) == IF q = {} \/ q = {""} THEN {} ELSE {parseInt(CHOOSE v \in q : TRUE)}

GetSchedules ==
  \E classroomId \in QueryNums, instructorId \in QueryNums :
    LET r == getSchedules(QueryArg(classroomId), QueryArg(instructorId))
    IN /\ resp' = [ListReply("GET /api/schedules", "getSchedules", r)
                     EXCEPT !.req = [classroomId |-> classroomId,
                                     instructorId |-> instructorId]]
       /\ UNCHANGED store

GetScheduleByIdResponse(key) ==
  ByKeyReply("GET /api/schedules/:id", "getScheduleById", key,
             getScheduleById(parseInt(key)), "Schedule not found")

GetScheduleById == \E key \in IdParams : /\ resp' = GetScheduleByIdResponse(key)
                                         /\ UNCHANGED store

PostSchedules ==
  \E body \in ScheduleBodies :
    LET c == createSchedule(body)
    IN /\ c.ok => CanCreate
       /\ resp' = CreateReply("POST /api/schedules", "createSchedule", body, body, c)
       /\ db' = c.db
       /\ nextId' = c.nextId
       /\ UNCHANGED <<dbUp, reg, proc>>

PatchSchedule ==
  \E key \in IdParams, body \in SchedulePatches :
    LET u == updateSchedule(parseInt(key), body)
    IN /\ resp' = PatchReply("PATCH /api/schedules/:id", "updateSchedule", key, body,
                             body, u)
       /\ db' = u.db
       /\ UNCHANGED <<nextId, dbUp, reg, proc>>

DeleteSchedule ==
  \E key \in IdParams :
    LET d == deleteSchedule(parseInt(key))
    IN /\ resp' = DeleteReply("DELETE /api/schedules/:id", "deleteSchedule", key, d,
                              "Schedule deleted successfully")
       /\ db' = d.db
       /\ UNCHANGED <<nextId, dbUp, reg, proc>>

-----------------------------------------------------------------------------
(* routes.ts: live sessions, mentor profiles, posts, mentorship sessions *)

Jam == [title |-> "Jam", mentorId |-> 1, scheduledAt |-> "2025-03-01"]
LiveSessionBodies == {Jam, Omit(Jam, {"scheduledAt"})}
MentorProfileBodies == {[userId |-> 1, specialization |-> "piano"]}
PostBodies == {[userId |-> 1, content |-> "hello"]}
Lesson == [mentorshipRequestId |-> 1, mentorId |-> 1, studentId |-> 2,
           scheduledAt |-> "2025-03-01"]
MentorshipSessionBodies == {Lesson, Omit(Lesson, {"scheduledAt"})}

GetLiveSessionById ==
  \E key \in IdParams :
    /\ resp' = ByKeyReply("GET /api/live-sessions/:id", "getLiveSessionById", key,
                          getLiveSessionById(parseInt(key)), "Live session not found")
    /\ UNCHANGED store

PostLiveSessions ==
  \E body \in LiveSessionBodies :
    LET arg == Spread(body, [scheduledAt |-> NewDate(body, "scheduledAt")])
        c == createLiveSession(arg)
    IN /\ c.ok => CanCreate
       /\ resp' = CreateReply("POST /api/live-sessions", "createLiveSession", body, arg, c)
       /\ db' = c.db
       /\ nextId' = c.nextId
       /\ UNCHANGED <<dbUp, reg, proc>>

GetMentorById ==
  \E key \in IdParams :
    /\ resp' = ByKeyReply("GET /api/mentors/:id", "getMentorProfileById", key,
                          getMentorProfileById(parseInt(key)), "Mentor profile not found")
    /\ UNCHANGED store

PostMentors ==
  \E body \in MentorProfileBodies :
    LET c == createMentorProfile(body)
    IN /\ c.ok => CanCreate
       /\ resp' = CreateReply("POST /api/mentors", "createMentorProfile", body, body, c)
       /\ db' = c.db
       /\ nextId' = c.nextId
       /\ UNCHANGED <<dbUp, reg, proc>>

GetPostById ==
  \E key \in IdParams :
    /\ resp' = ByKeyReply("GET /api/posts/:id", "getPostById", key,
                          getPostById(parseInt(key)), "Post not found")
    /\ UNCHANGED store

PostPosts ==
  \E body \in PostBodies :
    LET c == createPost(body)
    IN /\ c.ok => CanCreate
       /\ resp' = CreateReply("POST /api/posts", "createPost", body, body, c)
       /\ db' = c.db
       /\ nextId' = c.nextId
       /\ UNCHANGED <<dbUp, reg, proc>>

GetMentorshipSessionById ==
  \E key \in IdParams :
    /\ resp' = ByKeyReply("GET /api/mentorship-sessions/:id", "getMentorshipSessionById",
                          key, getMentorshipSessionById(parseInt(key)),
                          "Mentorship session not found")
    /\ UNCHANGED store

PostMentorshipSessions ==
  \E body \in MentorshipSessionBodies :
    LET arg == Spread(body, [scheduledAt |-> NewDate(body, "scheduledAt")])
        c == createMentorshipSession(arg)
    IN /\ c.ok => CanCreate
       /\ resp' = CreateReply("POST /api/mentorship-sessions", "createMentorshipSession",
                              body, arg, c)
       /\ db' = c.db
       /\ nextId' = c.nextId
       /\ UNCHANGED <<dbUp, reg, proc>>

-----------------------------------------------------------------------------
(* routes.ts: staff, master-role, mentorship and resignation requests *)

StaffRequestBodies == {[mentorId |-> 1, classroomId |-> 1],
                       [mentorId |-> 1, classroomId |-> 1, status |-> "approved"]}
\* the fields a status PATCH reads from the body
ReviewBodies(notes) ==
  {[status |-> "approved"], [status |-> "rejected", reviewedBy |-> 1] @@ (notes :> "fine")}
Apply == [mentorId |-> 1, experience |-> "5 years", qualifications |-> "BMus",
          motivation |-> "teach"]
MasterRoleRequestBodies ==
  {Spread(Apply, [portfolio |-> "cv.pdf", status |-> "approved"]),
   Spread(Apply, [reason |-> "why"]), Omit(Apply, {"motivation"}),
   Spread(Omit(Apply, {"motivation"}), [reason |-> "why"]), Spread(Apply, [mentorId |-> 0])}
MentorshipRequestBodies == {[studentId |-> 2, mentorId |-> 1]}
MentorshipRequestPatches == {[status |-> "accepted", mentorResponse |-> "welcome"]}
Leave == [mentorId |-> 1, classroomId |-> 1, reason |-> "moving",
          lastWorkDate |-> "2025-03-01"]
ResignationRequestBodies == {Leave, Omit(Leave, {"lastWorkDate"})}

GetStaffRequestById ==
  \E key \in IdParams :
    /\ resp' = ByKeyReply("GET /api/staff-requests/:id", "getStaffRequestById", key,
                          getStaffRequestById(parseInt(key)), "Staff request not found")
    /\ UNCHANGED store

PostStaffRequests ==
  \E body \in StaffRequestBodies :
    LET c == createStaffRequest(body)
    IN /\ c.ok => CanCreate
       /\ resp' = CreateReply("POST /api/staff-requests", "createStaffRequest", body, body, c)
       /\ db' = c.db
       /\ nextId' = c.nextId
       /\ UNCHANGED <<dbUp, reg, proc>>

\* the query strings sent to GET /api/staff-requests
QueryIds == Maybe({"", "0", "1", "2", "abc"})
QueryStatuses == Maybe({"pending", "approved"})

GetStaffRequests ==
  \E classroomId \in QueryIds, status \in QueryStatuses :
    LET r == getStaffRequests(QueryArg(classroomId), status)
    IN /\ resp' = [ListReply("GET /api/staff-requests", "getStaffRequests", r)
                     EXCEPT !.req = [classroomId |-> classroomId, status |-> status]]
       /\ UNCHANGED store

PatchStaffRequestStatus ==
  \E key \in IdParams, body \in ReviewBodies("adminNotes") :
    LET arg == Pick(body, {"status", "reviewedBy", "adminNotes"})
        u == updateStaffRequest(parseInt(key), arg)
    IN /\ resp' = PatchReply("PATCH /api/staff-requests/:id/status", "updateStaffRequest",
                             key, body, arg, u)
       /\ db' = u.db
       /\ UNCHANGED <<nextId, dbUp, reg, proc>>

GetMasterRoleRequestById ==
  \E key \in IdParams :
    /\ resp' = ByKeyReply("GET /api/master-role-requests/:id", "getMasterRoleRequestById",
                          key, getMasterRoleRequestById(parseInt(key)),
                          "Master role request not found")
    /\ UNCHANGED store

\* the handler with its two checks in the other order
PostMasterRoleRequests_requiredFirst ==
  \E body \in MasterRoleRequestBodies :
    LET route == "POST /api/master-role-requests"
        validRequestData == Pick(body, {"mentorId", "experience", "qualifications",
                                        "motivation", "portfolio"})
        c == createMasterRoleRequest(validRequestData)
    IN IF \/ ~TruthyNum(body, "mentorId") \/ ~TruthyStr(body, "experience")
          \/ ~TruthyStr(body, "qualifications") \/ ~TruthyStr(body, "motivation")
       THEN /\ resp' = Reply(route, [body |-> body], <<>>, 400,
                             [error |-> "Missing required fields"], <<>>)
            /\ UNCHANGED store
       ELSE IF \/ TruthyStr(body, "reason") \/ TruthyNum(body, "plannedClassrooms")
               \/ TruthyStr(body, "additionalQualifications")
       THEN /\ resp' = Reply(route, [body |-> body], <<>>, 400,
                             [error |-> "Invalid field names"], <<>>)
            /\ UNCHANGED store
       ELSE /\ c.ok => CanCreate
            /\ resp' = CreateReply(route, "createMasterRoleRequest", body,
                                   validRequestData, c)
            /\ db' = c.db
            /\ nextId' = c.nextId
            /\ UNCHANGED <<dbUp, reg, proc>>

PostMasterRoleRequests ==
  \E body \in MasterRoleRequestBodies :
    LET route == "POST /api/master-role-requests"
        validRequestData == Pick(body, {"mentorId", "experience", "qualifications",
                                        "motivation", "portfolio"})
        c == createMasterRoleRequest(validRequestData)
    IN IF \/ TruthyStr(body, "reason") \/ TruthyNum(body, "plannedClassrooms")
          \/ TruthyStr(body, "additionalQualifications")
       THEN /\ resp' = Reply(route, [body |-> body], <<>>, 400,
                             [error |-> "Invalid field names"], <<>>)
            /\ UNCHANGED store
       ELSE IF \/ ~TruthyNum(body, "mentorId") \/ ~TruthyStr(body, "experience")
               \/ ~TruthyStr(body, "qualifications") \/ ~TruthyStr(body, "motivation")
       THEN /\ resp' = Reply(route, [body |-> body], <<>>, 400,
                             [error |-> "Missing required fields"], <<>>)
            /\ UNCHANGED store
       ELSE /\ c.ok => CanCreate
            /\ resp' = CreateReply(route, "createMasterRoleRequest", body,
                                   validRequestData, c)
            /\ db' = c.db
            /\ nextId' = c.nextId
            /\ UNCHANGED <<dbUp, reg, proc>>

PatchMasterRoleRequestStatus ==
  \E key \in IdParams, body \in ReviewBodies("adminNotes") :
    LET arg == Pick(body, {"status", "reviewedBy", "adminNotes"})
        u == updateMasterRoleRequest(parseInt(key), arg)
    IN /\ resp' = PatchReply("PATCH /api/master-role-requests/:id/status",
                             "updateMasterRoleRequest", key, body, arg, u)
       /\ db' = u.db
       /\ UNCHANGED <<nextId, dbUp, reg, proc>>

GetMentorshipRequestById ==
  \E key \in IdParams :
    /\ resp' = ByKeyReply("GET /api/mentorship-requests/:id", "getMentorshipRequestById",
                          key, getMentorshipRequestById(parseInt(key)),
                          "Mentorship request not found")
    /\ UNCHANGED store

PostMentorshipRequests ==
  \E body \in MentorshipRequestBodies :
    LET c == createMentorshipRequest(body)
    IN /\ c.ok => CanCreate
       /\ resp' = CreateReply("POST /api/mentorship-requests", "createMentorshipRequest",
                              body, body, c)
       /\ db' = c.db
       /\ nextId' = c.nextId
       /\ UNCHANGED <<dbUp, reg, proc>>

PatchMentorshipRequest ==
  \E key \in IdParams, body \in MentorshipRequestPatches :
    LET u == updateMentorshipRequest(parseInt(key), body)
    IN /\ resp' = PatchReply("PATCH /api/mentorship-requests/:id",
                             "updateMentorshipRequest", key, body, body, u)
       /\ db' = u.db
       /\ UNCHANGED <<nextId, dbUp, reg, proc>>

GetResignationRequestById ==
  \E key \in IdParams :
    /\ resp' = ByKeyReply("GET /api/resignation-requests/:id", "getResignationRequestById",
                          key, getResignationRequestById(parseInt(key)),
                          "Resignation request not found")
    /\ UNCHANGED store

PostResignationRequests ==
  \E body \in ResignationRequestBodies :
    LET arg == Spread(body, [lastWorkDate |-> NewDate(body, "lastWorkDate")])
        c == createResignationRequest(arg)
    IN /\ c.ok => CanCreate
       /\ resp' = CreateReply("POST /api/resignation-requests", "createResignationRequest",
                              body, arg, c)
       /\ db' = c.db
       /\ nextId' = c.nextId
       /\ UNCHANGED <<dbUp, reg, proc>>

PatchResignationRequestStatus ==
  \E key \in IdParams, body \in ReviewBodies("masterNotes") :
    LET arg == Pick(body, {"status", "reviewedBy", "masterNotes"})
        u == updateResignationRequest(parseInt(key), arg)
    IN /\ resp' = PatchReply("PATCH /api/resignation-requests/:id/status",
                             "updateResignationRequest", key, body, arg, u)
       /\ db' = u.db
       /\ UNCHANGED <<nextId, dbUp, reg, proc>>

-----------------------------------------------------------------------------
(* env.ts: the environment schema and the configuration *)

EnvDefaults ==
  [NODE_ENV |-> "development", PORT |-> "5000",
   SESSION_SECRET |-> "fallback-secret-key-change-in-production", CORS_ORIGIN |-> "*",
   APP_NAME |-> "HarmonyLearn", APP_VERSION |-> "1.0.0", DATABASE_SSL |-> "false",
   DATABASE_POOL_SIZE |-> "10", REQUEST_TIMEOUT |-> "30000", BODY_LIMIT |-> "10mb"]
EnvKeys == DOMAIN EnvDefaults \cup {"DATABASE_URL"}
NodeEnvs == {"development", "production", "test"}

\* envSchema.parse(process.env): every variable is a string or unset; only NODE_ENV
\* is held to a set of values
envSchema(e) ==
  IF "NODE_ENV" \in DOMAIN e /\ e.NODE_ENV \notin NodeEnvs
  THEN [ok |-> FALSE, issues |-> {"NODE_ENV"}]
  ELSE [ok |-> TRUE, data |-> Spread(EnvDefaults, Pick(e, EnvKeys))]

\* parseEnv: a ZodError is logged and rethrown as one Error
parseEnv(e) ==
  LET p == envSchema(e)
  IN IF p.ok THEN p ELSE [ok |-> FALSE, error |-> "Environment validation failed"]

\* the exported config object
config(env) ==
  [app |-> [name |-> env.APP_NAME, version |-> env.APP_VERSION,
            port |-> parseInt(env.PORT), environment |-> env.NODE_ENV,
            isProduction |-> env.NODE_ENV = "production",
            isDevelopment |-> env.NODE_ENV = "development"],
   database |-> [url |-> IF "DATABASE_URL" \in DOMAIN env THEN env.DATABASE_URL ELSE "",
                 ssl |-> env.DATABASE_SSL = "true",
                 poolSize |-> parseInt(env.DATABASE_POOL_SIZE)],
   security |-> [sessionSecret |-> env.SESSION_SECRET, corsOrigin |-> env.CORS_ORIGIN],
   performance |-> [requestTimeout |-> parseInt(env.REQUEST_TIMEOUT),
                    bodyLimit |-> env.BODY_LIMIT]]

-----------------------------------------------------------------------------
(* index.ts: start of the process *)

\* const port = 5000
ListenPort == 5000
ListenHost == "0.0.0.0"

Platforms == {"linux", "win32"}
\* what the operating system answers to the bind: done, ENOTSUP, EADDRINUSE
BindResults == {"ok", "ENOTSUP", "EADDRINUSE"}

\* process.env of a start: each variable unset or set
Environments ==
  {Opt("NODE_ENV", n) @@ Opt("PORT", p) @@ Opt("DATABASE_POOL_SIZE", s)
     @@ Opt("REQUEST_TIMEOUT", t) :
     n \in Maybe({"production", "staging"}), p \in Maybe({"3000", "abc"}),
     s \in Maybe({"20", "many"}), t \in Maybe({"soon"})}

\* the process from its first import to server.listen: env.ts throws on an invalid
\* environment; server.listen has no 'error' listener, so a failed bind ends the
\* process
Boot(e, platform, bind) ==
  LET p == parseEnv(e)
      start == [env |-> e, platform |-> platform]
  IN IF ~p.ok THEN start @@ [pc |-> "aborted", error |-> p.error]
     ELSE IF bind # "ok"
     THEN start @@ [pc |-> "crashed", error |-> bind, config |-> config(p.data),
                    port |-> ListenPort, host |-> ListenHost]
     ELSE start @@ [pc |-> "listening", config |-> config(p.data),
                    port |-> ListenPort, host |-> ListenHost]

\* the process is stopped and started again under some environment
Restart ==
  \E e \in Environments, platform \in Platforms, bind \in BindResults :
    /\ proc' = Boot(e, platform, bind)
    /\ reg' = [s \in Slots |-> Idle]
    /\ resp' = NoResp
    /\ UNCHANGED <<db, nextId, dbUp>>

-----------------------------------------------------------------------------
(* the Express router: app.get(path, handler) in the order of registerRoutes; a
   request path is a sequence of segments *)

GetMentorByUserIdResponse(key) ==
  ByKeyReply("GET /api/mentors/user/:userId", "getMentorProfileByUserId", key,
             getMentorProfileByUserId(parseInt(key)), "Mentor profile not found")

GetClassroomBySlugResponse(slug) ==
  ByKeyReply("GET /api/classrooms/slug/:slug", "getClassroomBySlug", slug,
             getClassroomBySlug(slug), "Academy not found")

GetMentorByIdResponse(key) ==
  ByKeyReply("GET /api/mentors/:id", "getMentorProfileById", key,
             getMentorProfileById(parseInt(key)), "Mentor profile not found")

Router ==
  <<[route |-> "GET /api/classrooms/slug/:slug",
     pattern |-> <<"api", "classrooms", "slug", ":slug">>],
    [route |-> "GET /api/classrooms/:id", pattern |-> <<"api", "classrooms", ":id">>],
    [route |-> "GET /api/mentors/:id", pattern |-> <<"api", "mentors", ":id">>],
    [route |-> "GET /api/mentors/user/:userId",
     pattern |-> <<"api", "mentors", "user", ":userId">>]>>

IsParam(segment) == segment \in {":id", ":slug", ":userId"}

\* a matcher in which a pattern matches every path it is a prefix of
matchPath_prefix(pattern, path) ==
  /\ Len(path) >= Len(pattern)
  /\ \A i \in 1 .. Len(pattern) : IsParam(pattern[i]) \/ pattern[i] = path[i]

\* a parameter matches exactly one segment, a literal matches itself
matchPath(pattern, path) ==
  /\ Len(path) = Len(pattern)
  /\ \A i \in 1 .. Len(pattern) : IsParam(pattern[i]) \/ pattern[i] = path[i]

\* req.params of a path under a pattern
Params(pattern, path) ==
  [name \in {pattern[i] : i \in {j \in 1 .. Len(pattern) : IsParam(pattern[j])}} |->
     path[CHOOSE i \in 1 .. Len(pattern) : pattern[i] = name]]

\* the layers whose pattern matches, and the first of them: the one that answers
Layers(path) == {i \in 1 .. Len(Router) : matchPath(Router[i].pattern, path)}
Layer(path) == CHOOSE i \in Layers(path) : \A j \in Layers(path) : i <= j

Handle(route, params) ==
  CASE route = "GET /api/classrooms/slug/:slug" -> GetClassroomBySlugResponse(params[":slug"])
    [] route = "GET /api/classrooms/:id" -> GetClassroomByIdResponse(params[":id"])
    [] route = "GET /api/mentors/:id" -> GetMentorByIdResponse(params[":id"])
    [] route = "GET /api/mentors/user/:userId" -> GetMentorByUserIdResponse(params[":userId"])

Paths ==
  {<<"api", "mentors", k>> : k \in IdParams \cup {"user"}}
    \cup {<<"api", "mentors", "user", k>> : k \in IdParams}
    \cup {<<"api", "classrooms", k>> : k \in IdParams \cup {"slug"}}
    \cup {<<"api", "classrooms", "slug", k>> : k \in Slugs}

\* a GET request of one of the paths, answered by the first layer that matches
Dispatch ==
  \E path \in Paths :
    /\ Layers(path) # {}
    /\ LET layer == Router[Layer(path)]
           r == Handle(layer.route, Params(layer.pattern, path))
       IN resp' = [r EXCEPT !.req = [path |-> path, key |-> r.req.key]]
    /\ UNCHANGED store

-----------------------------------------------------------------------------
(* a handler as the statements it runs: calls that may throw and sends, in a try
   block with its catch block; what the response object has seen when it is done *)

Call(error) == [op |-> "call", throws |-> error]
Send(when, status, return) ==
  [op |-> "send", when |-> when, status |-> status, return |-> return]

\* res before anything is sent: the statuses written, the sends attempted, the error
\* thrown and not caught
Fresh == [sends |-> <<>>, attempts |-> 0, thrown |-> "none"]

\* the statements from the i-th on; facts are the conditions that hold.  A send on
\* a response already started throws and writes nothing.
RECURSIVE Exec(_, _, _, _)
Exec(stmts, i, res, facts) ==
  IF i > Len(stmts) THEN res
  ELSE LET s == stmts[i]
       IN IF s.op = "call"
          THEN IF s.throws \in facts THEN [res EXCEPT !.thrown = s.throws]
               ELSE Exec(stmts, i + 1, res, facts)
          ELSE IF ~(\/ s.when = "always"
                    \/ s.when \in facts
                    \/ s.when = "!headersSent" /\ res.sends = <<>>)
          THEN Exec(stmts, i + 1, res, facts)
          ELSE IF res.sends # <<>>
          THEN [res EXCEPT !.attempts = @ + 1, !.thrown = "ERR_HTTP_HEADERS_SENT"]
          ELSE LET sent == [res EXCEPT !.sends = Append(@, s.status), !.attempts = @ + 1]
               IN IF s.return THEN sent ELSE Exec(stmts, i + 1, sent, facts)

\* try { ... } catch (error) { ... }: the catch block sees the error thrown
Run(handler, facts) ==
  LET tried == Exec(handler.try, 1, Fresh, facts)
  IN IF tried.thrown = "none" THEN tried
     ELSE Exec(handler.catch, 1, [tried EXCEPT !.thrown = "none"], {tried.thrown})

\* app.post("/api/users")
PostUsersSteps ==
  [try |-> <<Call("ZodError"), Call("storageError"), Send("always", 201, FALSE)>>,
   catch |-> <<Send("ZodError", 400, TRUE), Send("always", 500, FALSE)>>]

\* the staff-classroom handler without the return before its 404
StaffClassroomSteps_noReturn ==
  [try |-> <<Send("isNaN", 400, TRUE), Call("storageError"), Send("notFound", 404, FALSE),
             Send("always", 200, FALSE)>>,
   catch |-> <<Send("always", 500, FALSE)>>]

\* app.get("/api/mentors/:mentorId/staff-classroom")
StaffClassroomSteps ==
  [try |-> <<Send("isNaN", 400, TRUE), Call("storageError"), Send("notFound", 404, TRUE),
             Send("always", 200, FALSE)>>,
   catch |-> <<Send("always", 500, FALSE)>>]

\* the error middleware: if (!res.headersSent) res.status(status).json({ message })
ErrorMiddlewareSteps(err) ==
  <<Send("!headersSent", ErrorMiddleware("", err).status, FALSE)>>

\* the column default of a membership's status is declared outside src/: either
MembershipDefaults == {[status |-> "active"], [status |-> "pending"]}
MembershipBodies ==
  {[userId |-> 1, classroomId |-> 1] @@ Opt("role", r) : r \in Maybe({"staff"})}

PostClassroomMemberships ==
  \E body \in MembershipBodies, columnDefault \in MembershipDefaults :
    LET role == IF "role" \in DOMAIN body THEN {body.role} ELSE {}
        c == createClassroomMembership(body.userId, body.classroomId, role, columnDefault)
    IN /\ c.ok => CanCreate
       /\ resp' = CreateReply("POST /api/classroom-memberships", "createClassroomMembership",
                              body, body, c)
       /\ db' = c.db
       /\ nextId' = c.nextId
       /\ UNCHANGED <<dbUp, reg, proc>>

GetStaffClassroom ==
  \E key \in IdParams :
    LET route == "GET /api/mentors/:mentorId/staff-classroom"
        mentorId == parseInt(key)
        classroomInfo == getStaffClassroomInfo(mentorId)
        facts == {f \in {"isNaN", "storageError", "notFound"} :
                    \/ f = "isNaN" /\ mentorId = NaN
                    \/ f = "storageError" /\ ~classroomInfo.ok
                    \/ f = "notFound" /\ classroomInfo.ok /\ classroomInfo.val = Null}
        res == Run(StaffClassroomSteps, facts)
        status == IF res.sends = <<>> THEN 0 ELSE res.sends[1]
        body == CASE status = 200 -> classroomInfo.val
                  [] status = 400 -> [error |-> "Invalid mentor ID"]
                  [] status = 404 -> [error |-> "No staff classroom found for this mentor"]
                  [] OTHER -> InternalError
        calls == IF "isNaN" \in facts THEN <<>> ELSE <<"getStaffClassroomInfo">>
    IN /\ resp' = Reply(route, [key |-> key], <<>>, status, body, calls)
                    @@ [sends |-> res.sends, attempts |-> res.attempts,
                        thrown |-> res.thrown]
       /\ UNCHANGED store

-----------------------------------------------------------------------------
(* Specifications *)


Init == /\ db = [t \in StoreTables |-> {}]
        /\ nextId = [t \in StoreTables |-> 1]
        /\ dbUp = TRUE
        /\ reg = [s \in Slots |-> Idle]
        /\ proc = Boot(<<>>, "linux", "ok")
        /\ resp = NoResp

\* the account routes, one register request at a time
NextAuth == \/ RegisterLookup("r1")
            \/ RegisterCreate("r1")
            \/ PostAuthLogin
            \/ PostUsers
            \/ GetUserById
            \/ GetUsers

SpecAuth == Init /\ [][NextAuth]_vars

\* the probes, over a database that comes and goes
NextProbe == \/ GetHealth
             \/ GetReady
             \/ DbDown
             \/ DbBack
             \/ PostUsers
             \/ GetUsers

SpecProbe == Init /\ [][NextProbe]_vars

\* courses, classrooms and schedules: every route
NextCatalog == \/ GetCourses \/ GetCourseById \/ PostCourses \/ PatchCourse \/ DeleteCourse
               \/ GetClassrooms \/ GetClassroomBySlug \/ GetClassroomById
               \/ PostClassrooms \/ PatchClassroom \/ DeleteClassroom
               \/ GetSchedules \/ GetScheduleById \/ PostSchedules \/ PatchSchedule
               \/ DeleteSchedule

SpecCatalog == Init /\ [][NextCatalog]_vars

\* create and get-by-id of every entity that has both
NextStore == \/ PostUsers \/ GetUserById
             \/ PostCourses \/ GetCourseById
             \/ PostClassrooms \/ GetClassroomById
             \/ PostSchedules \/ GetScheduleById
             \/ PostLiveSessions \/ GetLiveSessionById
             \/ PostMentors \/ GetMentorById
             \/ PostPosts \/ GetPostById
             \/ PostStaffRequests \/ GetStaffRequestById
             \/ PostMasterRoleRequests \/ GetMasterRoleRequestById
             \/ PostMentorshipRequests \/ GetMentorshipRequestById
             \/ PostResignationRequests \/ GetResignationRequestById
             \/ PostMentorshipSessions \/ GetMentorshipSessionById

SpecStore == Init /\ [][NextStore]_vars

\* create and PATCH of every entity that has an update route
NextUpdate == \/ PostCourses \/ PatchCourse
              \/ PostClassrooms \/ PatchClassroom
              \/ PostSchedules \/ PatchSchedule
              \/ PostStaffRequests \/ PatchStaffRequestStatus
              \/ PostMasterRoleRequests \/ PatchMasterRoleRequestStatus
              \/ PostMentorshipRequests \/ PatchMentorshipRequest
              \/ PostResignationRequests \/ PatchResignationRequestStatus

SpecUpdate == Init /\ [][NextUpdate]_vars

\* the four endpoints that parse the body with a zod schema
NextValidate == \/ PostUsers
                \/ RegisterLookup("r1")
                \/ RegisterCreate("r1")
                \/ PostCourses
                \/ PostClassrooms
                \/ DbDown
                \/ DbBack

SpecValidate == Init /\ [][NextValidate]_vars

\* requests that fail: the database down, a call that throws, a rejected body
NextFailure == \/ DbDown
               \/ DbBack
               \/ BodyRejected
               \/ GetReady
               \/ GetUsers
               \/ GetUserById
               \/ PostUsers
               \/ PostAuthLogin
               \/ GetClassroomBySlug
               \/ PostCourses
               \/ PatchCourse

SpecFailure == Init /\ [][NextFailure]_vars

\* the four workflow requests: create, then review
NextWorkflow == \/ PostStaffRequests \/ PatchStaffRequestStatus
                \/ PostMasterRoleRequests \/ PatchMasterRoleRequestStatus
                \/ PostMentorshipRequests \/ PatchMentorshipRequest
                \/ PostResignationRequests \/ PatchResignationRequestStatus

SpecWorkflow == Init /\ [][NextWorkflow]_vars

\* starts of the process under every environment
NextBoot == Restart

SpecBoot == Init /\ [][NextBoot]_vars

\* two register requests in flight: each may be suspended at its await of
\* getUserByEmail while the other runs
NextRace == \/ RegisterLookup("r1")
            \/ RegisterLookup("r2")
            \/ RegisterCreate("r1")
            \/ RegisterCreate("r2")

SpecRace == Init /\ [][NextRace]_vars

\* GET requests routed by path, over mentor profiles and classrooms
NextRouter == \/ PostMentors
              \/ PostClassrooms
              \/ Dispatch

SpecRouter == Init /\ [][NextRouter]_vars

\* staff requests created, reviewed and listed under query-string filters
NextFilter == \/ PostStaffRequests
              \/ PatchStaffRequestStatus
              \/ GetStaffRequests

SpecFilter == Init /\ [][NextFilter]_vars

\* rows created and then updated by id with partial data
NextPartial == \/ PostSchedules \/ PatchSchedule
               \/ PostStaffRequests \/ PatchStaffRequestStatus
               \/ PostMasterRoleRequests \/ PatchMasterRoleRequestStatus

SpecPartial == Init /\ [][NextPartial]_vars

\* writing requests that can fail after validation: a taken username, an invalid
\* date, the database down
NextWrites == \/ RegisterLookup("r1")
              \/ RegisterCreate("r1")
              \/ PostLiveSessions
              \/ PostMasterRoleRequests
              \/ DbDown
              \/ DbBack

SpecWrites == Init /\ [][NextWrites]_vars

\* requests followed statement by statement to the responses they send
NextServe == \/ PostClassroomMemberships
             \/ GetStaffClassroom
             \/ PostUsers
             \/ BodyRejected
             \/ DbDown
             \/ DbBack

SpecServe == Init /\ [][NextServe]_vars

-----------------------------------------------------------------------------
(* Properties *)

RegisterRoute == "POST /api/auth/register"
Passwords == {"", "pw1", "pw2"}

\* C1: after a register request with a valid payload is answered 201, the stored
\* password differs from the submitted plaintext, a login with the same e-mail and
\* the submitted plaintext is answered 200, and a login with the same e-mail and
\* any other password is answered 401.
C1_RegisterThenLogin ==
  (resp.route = RegisterRoute /\ resp.status = 201) =>
    LET body == resp.req.body
        stored == One(Matching("user", "email", body.email))
    IN /\ stored.password # body.password
       /\ LoginResponse([email |-> body.email, password |-> body.password]).status = 200
       /\ \A q \in Passwords \ {body.password} :
            LoginResponse([email |-> body.email, password |-> q]).status = 401

\* the step that takes a register request carrying `body` up to its e-mail lookup:
\* it answers there, or suspends the request before the insert
RegisterCalled(body) ==
  \/ resp'.route = RegisterRoute /\ reg' = reg /\ resp'.req.body = body
  \/ \E s \in Slots : reg[s] = Idle /\ reg'[s] # Idle /\ reg'[s].body = body

EmailTaken(body) == "email" \in DOMAIN body /\ Matching("user", "email", body.email) # {}

-----------------------------------------------------------------------------
(* the route table: which table each route reads or writes *)

CreateRoutes ==
  [t \in Tables |->
     CASE t = "user" -> "POST /api/users"
       [] t = "course" -> "POST /api/courses"
       [] t = "classroom" -> "POST /api/classrooms"
       [] t = "schedule" -> "POST /api/schedules"
       [] t = "liveSession" -> "POST /api/live-sessions"
       [] t = "mentorProfile" -> "POST /api/mentors"
       [] t = "post" -> "POST /api/posts"
       [] t = "staffRequest" -> "POST /api/staff-requests"
       [] t = "masterRoleRequest" -> "POST /api/master-role-requests"
       [] t = "mentorshipRequest" -> "POST /api/mentorship-requests"
       [] t = "resignationRequest" -> "POST /api/resignation-requests"
       [] t = "mentorshipSession" -> "POST /api/mentorship-sessions"]

PatchRoutes ==
  [t \in {"course", "classroom", "schedule", "staffRequest", "masterRoleRequest",
          "mentorshipRequest", "resignationRequest"} |->
     CASE t = "course" -> "PATCH /api/courses/:id"
       [] t = "classroom" -> "PATCH /api/classrooms/:id"
       [] t = "schedule" -> "PATCH /api/schedules/:id"
       [] t = "staffRequest" -> "PATCH /api/staff-requests/:id/status"
       [] t = "masterRoleRequest" -> "PATCH /api/master-role-requests/:id/status"
       [] t = "mentorshipRequest" -> "PATCH /api/mentorship-requests/:id"
       [] t = "resignationRequest" -> "PATCH /api/resignation-requests/:id/status"]

DeleteRoutes ==
  [t \in {"course", "classroom", "schedule"} |->
     CASE t = "course" -> "DELETE /api/courses/:id"
       [] t = "classroom" -> "DELETE /api/classrooms/:id"
       [] t = "schedule" -> "DELETE /api/schedules/:id"]

GetByIdRoutes ==
  [t \in {"course", "classroom", "schedule"} |->
     CASE t = "course" -> "GET /api/courses/:id"
       [] t = "classroom" -> "GET /api/classrooms/:id"
       [] t = "schedule" -> "GET /api/schedules/:id"]

ListRoutes == {"GET /api/courses", "GET /api/classrooms", "GET /api/schedules"}
SlugRoute == "GET /api/classrooms/slug/:slug"

\* the storage get-by-id of each table
getById(t, id) ==
  CASE t = "user" -> getUserById(id)
    [] t = "course" -> getCourseById(id)
    [] t = "classroom" -> getClassroomById(id)
    [] t = "schedule" -> getScheduleById(id)
    [] t = "liveSession" -> getLiveSessionById(id)
    [] t = "mentorProfile" -> getMentorProfileById(id)
    [] t = "post" -> getPostById(id)
    [] t = "staffRequest" -> getStaffRequestById(id)
    [] t = "masterRoleRequest" -> getMasterRoleRequestById(id)
    [] t = "mentorshipRequest" -> getMentorshipRequestById(id)
    [] t = "resignationRequest" -> getResignationRequestById(id)
    [] t = "mentorshipSession" -> getMentorshipSessionById(id)

\* what GET <entity>/:id answers in the current state
GetByIdResponse(t, key) ==
  CASE t = "course" -> GetCourseByIdResponse(key)
    [] t = "classroom" -> GetClassroomByIdResponse(key)
    [] t = "schedule" -> GetScheduleByIdResponse(key)

-----------------------------------------------------------------------------
(* create, then get by id *)

\* the last request was a create of table t that was answered 201
CreatedIn(t) == resp.route = CreateRoutes[t] /\ resp.status = 201

\* C3: for each of the twelve entities, after a create is answered 201 the storage
\* get-by-id called with the returned id returns a record in which every field handed
\* to the storage create has the value handed over, and every field the request left
\* out that has a default in the entity's zod schema has that default.
C3_CreateThenGet ==
  \A t \in Tables :
    CreatedIn(t) =>
      LET got == getById(t, resp.body.id)
      IN /\ got.ok
         /\ got.val # Null
         /\ \A f \in DOMAIN resp.arg :
              f \in DOMAIN got.val /\ got.val[f] = resp.arg[f]
         /\ \A f \in DOMAIN SchemaDefaults(t) \ DOMAIN resp.req.body :
              f \in DOMAIN got.val /\ got.val[f] = SchemaDefaults(t)[f]

\* a user created without a role, so that the default is what is read back
C3_Witness ==
  /\ CreatedIn("user")
  /\ "role" \notin DOMAIN resp.req.body
  /\ getById("user", resp.body.id).val.role = "student"
  /\ \E t \in Tables \ {"user"} : db[t] # {}

-----------------------------------------------------------------------------
(* classroom by slug *)

Slugged == {c \in db["classroom"] : "customSlug" \in DOMAIN c}

\* C4: when no two classrooms share a custom slug, get-by-slug of a slug some
\* classroom carries is answered 200 with a classroom carrying that slug, and
\* different slugs are answered with different classrooms.
C4_SlugLookup ==
  ((\A c, d \in Slugged : c.customSlug = d.customSlug => c = d)
     /\ resp.route = SlugRoute
     /\ \E c \in Slugged : c.customSlug = resp.req.key)
  => /\ resp.status = 200
     /\ resp.body \in Slugged
     /\ resp.body.customSlug = resp.req.key

-----------------------------------------------------------------------------
(* delete *)

\* no row of table t has the id that `key` parses to
Missing(t, key) == Matching(t, "id", parseInt(key)) = {}

\* the step does not create a row of table t under the id that `key` parses to
NotRecreated(t, key) ==
  ~(resp'.route = CreateRoutes[t] /\ resp'.status = 201 /\ resp'.body.id = parseInt(key))

\* C5: for course, classroom and schedule, once a delete of an id is answered 200 a
\* get-by-id of that id is answered 404, and a get-by-id that is answered 404 goes on
\* being answered 404 over every step other than a create that returns that id.
C5_DeletedStaysGone ==
  [][\A t \in DOMAIN DeleteRoutes : \A key \in IdParams :
       /\ (resp'.route = DeleteRoutes[t] /\ resp'.req.key = key /\ resp'.status = 200)
            => GetByIdResponse(t, key)'.status = 404
       /\ (GetByIdResponse(t, key).status = 404 /\ NotRecreated(t, key))
            => GetByIdResponse(t, key)'.status = 404]_vars

\* a delete was answered 200, and another row of the table is still there
C5_Witness ==
  \E t \in DOMAIN DeleteRoutes :
    /\ resp.route = DeleteRoutes[t]
    /\ resp.status = 200
    /\ GetByIdResponse(t, resp.req.key).status = 404
    /\ db[t] # {}

\* C6: for course, classroom and schedule, a delete of an id that no row has is
\* answered 500 with {error: "Internal server error"} and changes no stored row.
C6_DeleteMissing ==
  [][\A t \in DOMAIN DeleteRoutes : \A key \in IdParams :
       (resp'.route = DeleteRoutes[t] /\ resp'.req.key = key /\ Missing(t, key))
         => /\ resp'.status = 500
            /\ resp'.body = InternalError
            /\ db' = db
            /\ nextId' = nextId]_vars

\* a delete of a well-formed id that was issued and deleted before, answered 500
C6_Witness ==
  \E t \in DOMAIN DeleteRoutes :
    /\ resp.route = DeleteRoutes[t]
    /\ resp.status = 500
    /\ parseInt(resp.req.key) # NaN
    /\ parseInt(resp.req.key) < nextId[t]
    /\ Missing(t, resp.req.key)

-----------------------------------------------------------------------------
(* probes *)

\* C7: whatever the state of the database, GET /health is answered 200 with status
\* "healthy", and the handler makes no data-access call.
C7_HealthAlways ==
  resp.route = "GET /health" =>
    /\ resp.status = 200
    /\ resp.body.status = "healthy"
    /\ resp.calls = <<>>

\* /health answered while the database is down
C7_Witness == resp.route = "GET /health" /\ ~dbUp /\ resp.status = 200

\* C8: GET /ready is answered 200 with status "ready" when the database read succeeds
\* and 503 with status "not ready" when it fails.
C8_ReadyFollowsDb ==
  resp.route = "GET /ready" =>
    /\ resp.calls = <<"getUsers">>
    /\ dbUp => (resp.status = 200 /\ resp.body.status = "ready")
    /\ ~dbUp => (resp.status = 503 /\ resp.body.status = "not ready")

\* /ready answered while the database is down, rows being stored
C8_Witness ==
  /\ resp.route = "GET /ready"
  /\ ~dbUp
  /\ resp.status = 503
  /\ db["user"] # {}

-----------------------------------------------------------------------------
(* status codes of courses, classrooms and schedules *)

\* the rows a by-id or by-slug request asks for
Asked ==
  IF resp.route = SlugRoute
  THEN {c \in Slugged : c.customSlug = resp.req.key}
  ELSE UNION {Matching(t, "id", parseInt(resp.req.key)) :
                t \in {u \in DOMAIN GetByIdRoutes : GetByIdRoutes[u] = resp.route}}

\* C9: for course, classroom and schedule, a list is answered 200; a get-by-id or
\* get-by-slug is answered 200 when the row exists and 404 when the key is well formed
\* and no row has it; a create that succeeds is answered 201; a delete that succeeds
\* is answered 200 with a message field.
C9_StatusPolicy ==
  /\ resp.route \in ListRoutes => resp.status = 200
  /\ (resp.route = SlugRoute \/ \E t \in DOMAIN GetByIdRoutes : resp.route = GetByIdRoutes[t])
       => /\ Asked # {} => resp.status = 200
          /\ (Asked = {} /\ (resp.route = SlugRoute \/ parseInt(resp.req.key) # NaN))
               => resp.status = 404
  /\ (\E t \in DOMAIN DeleteRoutes : resp.route = CreateRoutes[t]) /\ resp.status < 400
       => resp.status = 201
  /\ (\E t \in DOMAIN DeleteRoutes : resp.route = DeleteRoutes[t]) /\ resp.status < 400
       => resp.status = 200 /\ "message" \in DOMAIN resp.body

-----------------------------------------------------------------------------
(* update of a missing id *)

\* C10: for course, classroom, schedule and the staff, master-role, mentorship and
\* resignation requests, a PATCH of an id that no row has is answered 500 and leaves
\* every table as it was; no row is inserted.
C10_PatchMissing ==
  [][\A t \in DOMAIN PatchRoutes : \A key \in IdParams :
       (resp'.route = PatchRoutes[t] /\ resp'.req.key = key /\ Missing(t, key))
         => /\ resp'.status = 500
            /\ resp'.body = InternalError
            /\ db' = db
            /\ nextId' = nextId]_vars

\* a PATCH of a well-formed id no row has, answered 500, rows being stored elsewhere
C10_Witness ==
  \E t \in DOMAIN PatchRoutes :
    /\ resp.route = PatchRoutes[t]
    /\ resp.status = 500
    /\ parseInt(resp.req.key) # NaN
    /\ Missing(t, resp.req.key)
    /\ \E u \in DOMAIN PatchRoutes : db[u] # {}

-----------------------------------------------------------------------------
(* schema validation at the four validated endpoints *)

\* the schema each validated endpoint names, applied to the body as it was sent
SchemaOf(route, body) ==
  CASE route = "POST /api/users" -> insertUserSchema(body)
    [] route = RegisterRoute -> insertUserSchema(body)
    [] route = "POST /api/courses" -> insertCourseSchema(body)
    [] route = "POST /api/classrooms" -> insertClassroomSchema(body)

ValidatedRoutes == {"POST /api/users", RegisterRoute, "POST /api/courses",
                    "POST /api/classrooms"}

\* C11: at POST /api/users, /api/auth/register, /api/courses and /api/classrooms, a
\* body that fails the endpoint's schema (a required field missing, a field of the
\* wrong type, a malformed e-mail) is answered 400 with the offending fields as
\* details, and the step writes no row.
C11_InvalidPayload ==
  [][\A route \in ValidatedRoutes :
       (resp'.route = route /\ ~SchemaOf(route, resp'.req.body).ok)
         => /\ resp'.status = 400
            /\ resp'.body.details = SchemaOf(route, resp'.req.body).issues
            /\ db' = db
            /\ nextId' = nextId]_vars

-----------------------------------------------------------------------------
(* where failures are answered *)

\* the step serves a request through a handler that calls the data-access layer
\* while the database is unreachable
DataAccessFails == resp'.route # "none" /\ resp'.by = "handler" /\ resp'.calls # <<>> /\ ~dbUp

\* C12 as stated: every failure while serving a request is answered by the route
\* handler with 500 and {error: "Internal server error"}; none reaches the error
\* middleware.
C12_AllCaughtInHandler ==
  [][/\ resp'.route # "none" => resp'.by = "handler"
     /\ DataAccessFails => (resp'.status = 500 /\ resp'.body = InternalError)]_vars

\* C12, amended: an error thrown while a route handler runs is answered by that
\* handler, with 503 {status: "not ready"} at GET /ready and with 500 {error:
\* "Internal server error"} for every other data-access error or throwing call, and
\* the store is left as it was; a body the parser rejects never reaches a handler and
\* is answered by the error middleware with the error's status and {message}.
C12_FailureResponses ==
  [][/\ DataAccessFails =>
          /\ IF resp'.route = "GET /ready"
             THEN resp'.status = 503 /\ resp'.body = [status |-> "not ready"]
             ELSE resp'.status = 500 /\ resp'.body = InternalError
          /\ db' = db /\ nextId' = nextId
     /\ resp'.route = "GET /api/classrooms/slug/:slug" =>
          (resp'.by = "handler" /\ resp'.status = 500 /\ resp'.body = InternalError)
     /\ (resp'.route # "none" /\ resp'.by = "errorMiddleware") =>
          /\ resp'.calls = <<>>
          /\ resp'.status = resp'.req.err.status
          /\ resp'.body = [message |-> resp'.req.err.message]
          /\ db' = db /\ nextId' = nextId]_vars

\* a rejected body answered by the error middleware while rows are stored
C12_Witness ==
  /\ resp.route \in BodyRoutes
  /\ resp.by = "errorMiddleware"
  /\ resp.status = 400
  /\ db["user"] # {}

-----------------------------------------------------------------------------
(* data-access calls per request *)

\* C13 as stated: a handler that gets past validation invokes exactly one
\* data-access function before it answers.
C13_SingleCall ==
  (resp.route # "none" /\ resp.status # 400) => Len(resp.calls) = 1

\* C13, amended: a request answered 400 has invoked no data-access function; every
\* other request has invoked exactly one, except POST /api/auth/register, which
\* invokes getUserByEmail and, when no user has the e-mail, createUser after it.
C13_CallsPerRequest ==
  resp.route # "none" =>
    /\ resp.status = 400 => resp.calls = <<>>
    /\ (resp.status # 400 /\ resp.route # RegisterRoute) => Len(resp.calls) = 1
    /\ (resp.status # 400 /\ resp.route = RegisterRoute) =>
         \/ resp.calls = <<"getUserByEmail">> /\ resp.status \in {409, 500}
         \/ resp.calls = <<"getUserByEmail", "createUser">> /\ resp.status \in {201, 500}

\* a register answered 201 after its two calls
C13_Witness ==
  /\ resp.route = RegisterRoute
  /\ resp.status = 201
  /\ resp.calls = <<"getUserByEmail", "createUser">>

-----------------------------------------------------------------------------
(* the status of a workflow request *)

\* C14: after the POST of a staff, master-role, mentorship or resignation request is
\* answered 201, the request returned and stored has status "pending", whatever the
\* body carried.
C14_CreatedPending ==
  \A t \in WorkflowTables :
    CreatedIn(t) =>
      /\ resp.body.status = "pending"
      /\ \A r \in Matching(t, "id", resp.body.id) : r.status = "pending"

\* the rows of table t before and after the step that have the same id
SameRow(t, r, q) == r \in db[t] /\ q \in db'[t] /\ r.id = q.id

\* C15: the status of a workflow request is always pending, approved or rejected,
\* and a step changes it only from pending to approved or from pending to rejected.
C15_StatusTransitions ==
  [][\A t \in WorkflowTables :
       /\ \A q \in db'[t] : q.status \in {"pending", "approved", "rejected"}
       /\ \A r \in db[t] : \A q \in db'[t] :
            (SameRow(t, r, q) /\ q.status # r.status)
              => (r.status = "pending" /\ q.status \in {"approved", "rejected"})]_vars

\* a status PATCH of a workflow request that was answered 200
Reviewed(t) == resp.route = PatchRoutes[t] /\ resp.status = 200

\* C16: after a PATCH that sets the status of a workflow request to approved or
\* rejected is answered 200, the row carries a review timestamp reviewedAt, with
\* reviewedBy in the body or not.
C16_ReviewStamped ==
  \A t \in WorkflowTables :
    (Reviewed(t) /\ "status" \in DOMAIN resp.req.body
       /\ resp.req.body.status \in {"approved", "rejected"})
      => "reviewedAt" \in DOMAIN resp.body

-----------------------------------------------------------------------------
(* the environment at start *)

\* the variables config reads as numbers
NumericVars == {"PORT", "DATABASE_POOL_SIZE", "REQUEST_TIMEOUT"}

\* the value of an environment variable is one the claim calls invalid
InvalidEnv(e) ==
  \/ "NODE_ENV" \in DOMAIN e /\ e.NODE_ENV \notin NodeEnvs
  \/ \E v \in NumericVars \cap DOMAIN e : parseInt(e[v]) = NaN

\* C17: a start under an environment with an invalid value (NODE_ENV outside
\* development/production/test, or a non-numeric PORT, DATABASE_POOL_SIZE or
\* REQUEST_TIMEOUT) aborts with an error and produces no config object; otherwise
\* every unset variable has its declared default.
C17_EnvValidated ==
  /\ InvalidEnv(proc.env) => (proc.pc = "aborted" /\ "config" \notin DOMAIN proc)
  /\ ~InvalidEnv(proc.env) =>
       /\ proc.pc # "aborted"
       /\ \A v \in DOMAIN EnvDefaults \ DOMAIN proc.env :
            parseEnv(proc.env).data[v] = EnvDefaults[v]

-----------------------------------------------------------------------------
(* login issues nothing and changes nothing *)

LoginRoute == "POST /api/auth/login"

\* C18: a login answered 200 carries exactly a message and the user, the user
\* without its password, no token or session identifier, and the step leaves the
\* rows, the id counters, the requests in flight and the process as they were.
C18_LoginReadOnly ==
  [][(resp'.route = LoginRoute /\ resp'.status = 200) =>
       /\ DOMAIN resp'.body = {"message", "user"}
       /\ resp'.body.user \in {Omit(u, {"password"}) : u \in db["user"]}
       /\ UNCHANGED <<db, nextId, dbUp, reg, proc>>]_vars

\* a login answered 200 while a second user is stored
C18_Witness ==
  /\ resp.route = LoginRoute
  /\ resp.status = 200
  /\ \E u \in db["user"] : u.email # resp.req.body.email

-----------------------------------------------------------------------------
(* the port and the host of the listening socket *)

\* C19: a process started with PORT set to a number listens on that port, and one
\* started with PORT unset listens on port 5000.
C19_PortFromEnv ==
  proc.pc = "listening" =>
    /\ ("PORT" \in DOMAIN proc.env /\ parseInt(proc.env.PORT) # NaN)
         => proc.port = parseInt(proc.env.PORT)
    /\ "PORT" \notin DOMAIN proc.env => proc.port = 5000

\* C20: on Windows the process listens on localhost, not 0.0.0.0, and a bind that
\* fails with ENOTSUP does not end the process: it falls back to localhost and
\* listens.
C20_WindowsFallback ==
  /\ (proc.platform = "win32" /\ proc.pc = "listening") => proc.host = "localhost"
  /\ ~(proc.pc = "crashed" /\ proc.error = "ENOTSUP")

-----------------------------------------------------------------------------
(* concurrent registration *)

\* the step in which the register request of slot s resumes after its lookup
RegisterResumes(s) == reg[s] # Idle /\ reg'[s] = Idle

\* C21 as stated: register requests that overlap never leave two rows with one e-mail,
\* and the request that resumes after the other has inserted a row with its e-mail
\* is answered 409, the first one 201.
C21_ConcurrentRegister ==
  [][\A s \in Slots :
       RegisterResumes(s) =>
         /\ \A u, v \in db'["user"] : u.email = v.email => u = v
         /\ EmailTaken(reg[s].validatedData) => resp'.status = 409
         /\ resp'.status = 201 => ~EmailTaken(reg[s].validatedData)]_vars

-----------------------------------------------------------------------------
(* every way of creating a user *)

UserCreatingRoutes == {RegisterRoute, CreateRoutes["user"]}

\* C22 as stated: after a user is created through POST /api/auth/register or through
\* POST /api/users with a non-empty password, the row holds a hash and not the
\* submitted password, and a login with the e-mail and the submitted password is
\* answered 200.
C22_EveryUserCanLogin ==
  (/\ resp.route \in UserCreatingRoutes
   /\ resp.status = 201
   /\ resp.req.body.password # "") =>
    LET body == resp.req.body
        stored == One(Matching("user", "email", body.email))
    IN /\ stored.password \in {bcryptHash(body.password, salt) : salt \in Salts}
       /\ LoginResponse([email |-> body.email, password |-> body.password]).status = 200

-----------------------------------------------------------------------------
(* routing *)

UserRoute == "GET /api/mentors/user/:userId"

\* a request whose path is /api/mentors/user/<something> has been answered
UserPathAnswered ==
  /\ resp # NoResp
  /\ "path" \in DOMAIN resp.req
  /\ Len(resp.req.path) = 4
  /\ resp.req.path[2] = "mentors"
  /\ resp.req.path[3] = "user"

\* C23: a GET of /api/mentors/user/<n> is answered by the handler of
\* /api/mentors/user/:userId, which reads by user id: 200 with a profile of that
\* user when one exists, 404 when none does; the handler of /api/mentors/:id never
\* takes it with "user" as the id.
C23_UserRouteReached ==
  UserPathAnswered =>
    LET userId == parseInt(resp.req.path[4])
        profiles == {r \in db["mentorProfile"] : r.userId = userId}
    IN /\ resp.route = UserRoute
       /\ resp.calls = <<"getMentorProfileByUserId">>
       /\ resp.req.key = resp.req.path[4]
       /\ (dbUp /\ userId # NaN) =>
            IF profiles = {} THEN resp.status = 404
            ELSE resp.status = 200 /\ resp.body \in profiles

\* a profile of user 1 is served by user id while the profile with that id is another
C23_Witness ==
  /\ UserPathAnswered
  /\ resp.status = 200
  /\ resp.body.userId = 1
  /\ \E r \in db["mentorProfile"] : r.id = 2

-----------------------------------------------------------------------------
(* filtered lists *)

\* the rows equal to every filter value the query string supplied
Restricted(rows, query) ==
  {r \in rows :
     /\ \A v \in query.classroomId : "classroomId" \in DOMAIN r /\ r.classroomId = parseInt(v)
     /\ \A v \in query.status : "status" \in DOMAIN r /\ r.status = v}

\* C24 as stated: a 200 answer of GET /api/staff-requests lists exactly the rows equal
\* to every supplied filter value; a supplied classroomId restricts the result also
\* when it is 0 or not a number.
C24_FilterRestricts ==
  (resp.route = "GET /api/staff-requests" /\ resp.status = 200) =>
    resp.body = Restricted(db["staffRequest"], resp.req)

-----------------------------------------------------------------------------
(* partial updates *)

\* the timestamps the update functions set themselves
Stamps == {"updatedAt", "reviewedAt", "approvedAt", "rejectedAt"}

\* C25: a PATCH answered 200 sets the fields of the partial data handed to the update
\* function, may set the timestamps that function stamps, and leaves every other field
\* of the row, every other row and every other table as they were.
C25_UpdateIsPartial ==
  [][\A t \in DOMAIN PatchRoutes :
       (resp'.route = PatchRoutes[t] /\ resp'.status = 200) =>
         LET old == One(Matching(t, "id", parseInt(resp'.req.key)))
             new == resp'.body
             data == resp'.arg
         IN /\ old # Null
            /\ \A f \in DOMAIN data : new[f] = data[f]
            /\ \A f \in DOMAIN old \ (DOMAIN data \cup Stamps) :
                 f \in DOMAIN new /\ new[f] = old[f]
            /\ DOMAIN new \subseteq DOMAIN old \cup DOMAIN data \cup Stamps
            /\ db'[t] = (db[t] \ {old}) \cup {new}
            /\ \A u \in Tables \ {t} : db'[u] = db[u]]_vars

\* a status PATCH that carried only status, on a staff request reviewed before: the
\* row keeps its reviewer and notes
C25_Witness ==
  /\ resp.route = PatchRoutes["staffRequest"]
  /\ resp.status = 200
  /\ DOMAIN resp.arg = {"status"}
  /\ resp.body.status = "approved"
  /\ "reviewedBy" \in DOMAIN resp.body
  /\ resp.body.reviewedBy = 1
  /\ resp.body.adminNotes = "fine"
  /\ resp.body \in db["staffRequest"]

-----------------------------------------------------------------------------
(* failed requests write nothing *)

\* C26: the step that answers a request with a status of 400 or above leaves every
\* table as it was.
C26_ErrorsWriteNothing ==
  [][(resp' # NoResp /\ resp'.status >= 400) => db' = db]_vars

\* a register request that passed validation and the e-mail lookup, reached the
\* insert with the database up, and was answered 500
C26_Witness ==
  /\ resp.route = RegisterRoute
  /\ resp.status = 500
  /\ resp.calls = <<"getUserByEmail", "createUser">>
  /\ dbUp
  /\ db["user"] # {}

-----------------------------------------------------------------------------
(* the checks of POST /api/master-role-requests *)

MasterRoleRoute == CreateRoutes["masterRoleRequest"]
WrongNames == {"reason", "plannedClassrooms", "additionalQualifications"}
RequiredNames == {"mentorId", "experience", "qualifications", "motivation"}
StoredNames == RequiredNames \cup {"portfolio"}

\* JavaScript truthiness of field f of a body, whatever its type
Truthy(body, f) == IF f = "mentorId" THEN TruthyNum(body, f) ELSE TruthyStr(body, f)

\* the response of the handler's two checks to a body, and whether it passes them
Checked(body) ==
  IF \E f \in WrongNames : Truthy(body, f)
  THEN [passed |-> FALSE, error |-> "Invalid field names"]
  ELSE IF \E f \in RequiredNames : ~Truthy(body, f)
  THEN [passed |-> FALSE, error |-> "Missing required fields"]
  ELSE [passed |-> TRUE]

\* the row of the last response is stored and carries, of the body, only the five
\* stored fields
StoredFromFive ==
  /\ resp.body \in db["masterRoleRequest"]
  /\ \A f \in DOMAIN resp.arg : resp.body[f] = resp.req.body[f]
  /\ \A f \in DOMAIN resp.req.body \ StoredNames :
       f \notin DOMAIN resp.body \/ resp.body[f] # resp.req.body[f]

\* C27 as stated: POST /api/master-role-requests answers 400 "Invalid field names"
\* when the body has a truthy reason, plannedClassrooms or additionalQualifications,
\* otherwise 400 "Missing required fields" when a required field is missing or falsy,
\* and otherwise always creates a row from the five stored fields.
C27_AlwaysCreated ==
  (resp.route = MasterRoleRoute) =>
    LET c == Checked(resp.req.body)
    IN IF ~c.passed
       THEN resp.status = 400 /\ resp.body.error = c.error /\ resp.calls = <<>>
       ELSE /\ resp.status = 201
            /\ resp.arg = Pick(resp.req.body, StoredNames)
            /\ StoredFromFive

\* C27, amended: the two 400 checks come in that order, before any data access; a
\* body that passes both is handed to createMasterRoleRequest as exactly mentorId,
\* experience, qualifications, motivation and portfolio, and is answered 201 with the
\* row stored from them, or 500 when the data access fails.
C27_CheckOrder ==
  (resp.route = MasterRoleRoute) =>
    LET c == Checked(resp.req.body)
    IN IF ~c.passed
       THEN resp.status = 400 /\ resp.body.error = c.error /\ resp.calls = <<>>
       ELSE /\ resp.calls = <<"createMasterRoleRequest">>
            /\ resp.arg = Pick(resp.req.body, StoredNames)
            /\ IF resp.status = 201 THEN StoredFromFive
               ELSE resp.status = 500 /\ resp.body = InternalError /\ ~dbUp

\* a request created from a body that also carried a status
C27_Witness ==
  /\ resp.route = MasterRoleRoute
  /\ resp.status = 201
  /\ "status" \in DOMAIN resp.req.body
  /\ "status" \notin DOMAIN resp.arg
  /\ resp.body.portfolio = resp.req.body.portfolio

-----------------------------------------------------------------------------
(* what a refused login reveals *)

\* an e-mail no user has
Nobody == "x@h.io"

\* C28 as stated: a login without a truthy email and password is answered 400 with no
\* lookup; any other login that is refused gets the response the same payload gets
\* for an e-mail no user has, 401 "Invalid credentials".
C28_SameRefusal ==
  (resp.route = LoginRoute) =>
    LET body == resp.req.body
        unknown == LoginResponse(Spread(body, [email |-> Nobody]))
    IN IF ~TruthyStr(body, "email") \/ ~TruthyStr(body, "password")
       THEN resp.status = 400 /\ resp.calls = <<>>
       ELSE resp.status # 200 =>
              /\ resp.status = unknown.status
              /\ resp.body = unknown.body
              /\ resp.status = 401
              /\ resp.body = [error |-> "Invalid credentials"]

-----------------------------------------------------------------------------
(* the password never leaves the store *)

\* the last response is a successful register or login
Authenticated ==
  \/ resp.route = RegisterRoute /\ resp.status = 201
  \/ resp.route = LoginRoute /\ resp.status = 200

\* C29: the response of a successful register or login carries a message and the
\* user, and the user is the stored row without its password field.
C29_NoPasswordInResponse ==
  Authenticated =>
    /\ DOMAIN resp.body = {"message", "user"}
    /\ "password" \notin DOMAIN resp.body.user
    /\ \E u \in db["user"] :
         /\ u.email = resp.req.body.email
         /\ "password" \in DOMAIN u
         /\ resp.body.user = Omit(u, {"password"})

\* a login answered 200 for a user whose row holds a hash of the submitted password
C29_Witness ==
  /\ resp.route = LoginRoute
  /\ resp.status = 200
  /\ \E u \in db["user"] :
       /\ u.email = resp.req.body.email
       /\ u.password \in {bcryptHash(resp.req.body.password, salt) : salt \in Salts}

-----------------------------------------------------------------------------
(* one response per request *)

StaffClassroomRoute == "GET /api/mentors/:mentorId/staff-classroom"

\* the conditions under which POST /api/users runs for a body, in the current state
PostUsersFacts(body) ==
  LET p == insertUserSchema(body)
  IN IF ~p.ok THEN {"ZodError"}
     ELSE IF ~createUser(p.data).ok THEN {"storageError"}
     ELSE {}

\* C30: a request that reaches a handler is answered once: the handler attempts one
\* send on every path, the status answered is the one that send wrote, and no error
\* is left uncaught; the error middleware writes the response of a request no handler
\* has answered and attempts nothing on a response already started.
C30_AnsweredOnce ==
  [][/\ resp'.route = StaffClassroomRoute =>
          /\ resp'.sends = <<resp'.status>>
          /\ resp'.attempts = 1
          /\ resp'.thrown = "none"
     /\ resp'.route = CreateRoutes["user"] /\ resp'.by = "handler" =>
          LET res == Run(PostUsersSteps, PostUsersFacts(resp'.req.body))
          IN res.sends = <<resp'.status>> /\ res.attempts = 1 /\ res.thrown = "none"
     /\ (resp' # NoResp /\ resp'.by = "errorMiddleware") =>
          LET steps == ErrorMiddlewareSteps(resp'.req.err)
              started == [Fresh EXCEPT !.sends = <<200>>, !.attempts = 1]
          IN /\ Exec(steps, 1, Fresh, {}).sends = <<resp'.status>>
             /\ Exec(steps, 1, Fresh, {}).attempts = 1
             /\ Exec(steps, 1, started, {}) = started]_vars

\* the early return of the staff-classroom handler: a mentor without an active staff
\* membership is answered 404 while memberships are stored
C30_Witness ==
  /\ resp.route = StaffClassroomRoute
  /\ resp.status = 404
  /\ dbUp
  /\ db["classroomMembership"] # {}
====
